---- MODULE Spec2Model ----
(***************************************************************************)
(* A model of the WOLS specimen-label library (package wols): the          *)
(* migration engine (wols/migration.py), the record model and JSON codec   *)
(* (wols/models/specimen.py, wols/core/parse.py, wols/core/serialize.py),  *)
(* the compact-URL codec and the validator (wols/core/validate.py).        *)
(*                                                                         *)
(* Strings the code inspects character by character (identifiers, URLs,    *)
(* version strings) are sequences of one-character strings or of digits;   *)
(* strings the code only passes around are TLA+ strings.  An optional      *)
(* value (Python's None) is the empty sequence, a present value v is <<v>>.*)
(***************************************************************************)
EXTENDS Integers, Sequences, FiniteSets, TLC

VARIABLES
    MIGRATION_REGISTRY, \* migration.py: the dict (from, to) -> handler, in insertion order
    input,              \* the record the caller holds and passes to can_migrate / migrate
    cm,                 \* the activation of can_migrate
    mg,                 \* the activation of migrate
    js,                 \* a caller building a Specimen, serialising it and parsing it back
    url,                \* a caller encoding a compact URL and decoding one
    vr,                 \* a caller building a raw mapping and validating it
    cr,                 \* a caller of create_specimen
    TYPE_ALIAS_REGISTRY, \* type_aliases.py: the dict alias -> SpecimenType
    ta,                 \* a caller registering and resolving type aliases
    gn,                 \* a caller of normalize_generation
    ps,                 \* a caller of parse_specimen on any text
    cv,                 \* a caller of compare_versions
    en                  \* a caller of encrypt_specimen_fields

migVars == <<MIGRATION_REGISTRY, input, cm, mg>>
libVars == <<cr, TYPE_ALIAS_REGISTRY, ta, gn, ps, cv, en>>
vars == <<MIGRATION_REGISTRY, input, cm, mg, js, url, vr, cr, TYPE_ALIAS_REGISTRY, ta, gn, ps, cv, en>>

(***************************************************************************)
(* Bounds of the model.                                                    *)
(***************************************************************************)
\* The most edges the registry holds.
MaxEdges == 2
\* The most hops of one migrate call whose edges are recorded in mg.applied.
MaxTrace == 3

(***************************************************************************)
(* Generic helpers: Python dicts as functions, sequences.                  *)
(***************************************************************************)
\* d[k] = v, adding the key when it is missing (dict item assignment).
Put(d, k, v) == [x \in (DOMAIN d) \cup {k} |-> IF x = k THEN v ELSE d[x]]

\* dict.get(k, default)
Get(d, k, default) == IF k \in DOMAIN d THEN d[k] ELSE default

\* d without the key k.
Remove(d, k) == [x \in (DOMAIN d) \ {k} |-> d[x]]

\* The empty dict.
EmptyDict == [x \in {} |-> 0]

\* Lexicographic order on sequences of integers (Python's tuple and str "<"):
\* the first differing position decides, a proper prefix is smaller.
SeqLess(s, t) ==
    \E i \in 1..Len(t) :
        /\ \A j \in 1..(i - 1) : j <= Len(s) /\ s[j] = t[j]
        /\ i > Len(s) \/ s[i] < t[i]

(***************************************************************************)
(* JSON values, as json.loads produces them and json.dumps accepts them:   *)
(* a value is a record with a tag t and, except for null, a payload v.     *)
(***************************************************************************)
JNull    == [t |-> "null"]
JStr(s)  == [t |-> "str", v |-> s]
JNum(n)  == [t |-> "num", v |-> n]
JObj(d)  == [t |-> "obj", v |-> d]

\* isinstance(x, str), isinstance(x, dict), isinstance(x, int), x is None
IsStr(x)  == x.t = "str"
IsDict(x) == x.t = "obj"
IsInt(x)  == x.t = "num"
IsNone(x) == x.t = "null"

\* The strings of the model that are empty after str.strip().
BlankStrings == {"", "   "}

\* s.strip(): a blank string strips to "", the other strings of the model have
\* no surrounding whitespace.
strip(s) == IF s \in BlankStrings THEN "" ELSE s

(***************************************************************************)
(* Identifiers: sequences of one-character strings.                        *)
(***************************************************************************)
\* constants.py: ID_PREFIX = "wemush"
ID_PREFIX == <<"w", "e", "m", "u", "s", "h">>

\* constants.py: WOLS_CONTEXT
WOLS_CONTEXT == "https://wemush.com/wols/v1"

\* s.startswith(p)
startswith(s, p) == Len(s) >= Len(p) /\ SubSeq(s, 1, Len(p)) = p

\* n copies of the character c.
Rep(c, n) == [i \in 1..n |-> c]

(***************************************************************************)
(* models/enums.py                                                         *)
(***************************************************************************)
SpecimenType == {"CULTURE", "SPAWN", "SUBSTRATE", "FRUITING", "HARVEST"}

GROWTH_STAGES ==
    <<"INOCULATION", "INCUBATION", "COLONIZATION", "PRIMORDIA", "FRUITING",
      "SENESCENCE", "HARVEST">>

GrowthStage == {GROWTH_STAGES[i] : i \in 1..Len(GROWTH_STAGES)}

(***************************************************************************)
(* datetime values and their ISO 8601 text.  A datetime is                 *)
(* [day, sec, us, tz]: the calendar date and the time of day (opaque), the *)
(* microsecond, and the UTC offset in minutes (<<>> for a naive value).    *)
(* Its text is the sequence of the parts isoformat() writes.               *)
(***************************************************************************)
\* The fraction and the offset of a timestamp text, for the model's values.
FracText(us) == IF us = 500 THEN ".000500" ELSE ".000000"
OffsetText(m) == IF m = 120 THEN "+02:00" ELSE "+00:00"
FracTexts == {".000500", ".000000"}
OffsetTexts == {"+02:00", "+00:00"}
FracValue(t) == IF t = ".000500" THEN 500 ELSE 0
OffsetValue(t) == IF t = "+02:00" THEN 120 ELSE 0

\* datetime.isoformat(): YYYY-MM-DDTHH:MM:SS[.ffffff][+HH:MM]; the fraction
\* is written only when the microsecond is not 0, the offset only for an
\* aware value.
isoformat(d) ==
    <<d.day, "T", d.sec>>
      \o (IF d.us # 0 THEN <<FracText(d.us)>> ELSE <<>>)
      \o (IF d.tz # <<>> THEN <<OffsetText(d.tz[1])>> ELSE <<>>)

\* str.replace("Z", "+00:00") on the parts of a timestamp text.
replaceZ(s) == [i \in 1..Len(s) |-> IF s[i] = "Z" THEN "+00:00" ELSE s[i]]

\* datetime.fromisoformat(text)
fromisoformat(s) ==
    [day |-> s[1], sec |-> s[3],
     us  |-> IF \E i \in 4..Len(s) : s[i] \in FracTexts
             THEN FracValue(s[CHOOSE i \in 4..Len(s) : s[i] \in FracTexts])
             ELSE 0,
     tz  |-> IF \E i \in 4..Len(s) : s[i] \in OffsetTexts
             THEN <<OffsetValue(s[CHOOSE i \in 4..Len(s) : s[i] \in OffsetTexts])>>
             ELSE <<>>]

(***************************************************************************)
(* models/specimen.py: Strain and Specimen.                                *)
(***************************************************************************)
\* Strain.to_dict: the name, and each other field that is not None.
Strain_to_dict(st) ==
    [x \in {"name"}
           \cup (IF st.generation # <<>> THEN {"generation"} ELSE {})
           \cup (IF st.clonal_generation # <<>> THEN {"clonalGeneration"} ELSE {})
           \cup (IF st.lineage # <<>> THEN {"lineage"} ELSE {})
           \cup (IF st.source # <<>> THEN {"source"} ELSE {}) |->
        CASE x = "name"             -> JStr(st.name)
          [] x = "generation"       -> JNum(st.generation[1])
          [] x = "clonalGeneration" -> JNum(st.clonal_generation[1])
          [] x = "lineage"          -> JStr(st.lineage[1])
          [] x = "source"           -> JStr(st.source[1])]

\* data.get(k) of a JSON object, as an optional value of the payload: None for a
\* missing key and for null.
GetOpt(d, k) == IF k \in DOMAIN d /\ ~IsNone(d[k]) THEN <<d[k].v>> ELSE <<>>

\* Strain.from_dict
Strain_from_dict(d) ==
    [name              |-> d["name"].v,
     generation        |-> GetOpt(d, "generation"),
     clonal_generation |-> GetOpt(d, "clonalGeneration"),
     lineage           |-> GetOpt(d, "lineage"),
     source            |-> GetOpt(d, "source")]

\* Strain(name=s): the other fields default to None.
StrainOf(s) ==
    [name |-> s, generation |-> <<>>, clonal_generation |-> <<>>,
     lineage |-> <<>>, source |-> <<>>]

\* The fields of the Specimen dataclass.
SpecimenFields ==
    {"id", "version", "type", "species", "strain", "stage", "created", "batch",
     "organization", "creator", "custom", "signature"}

\* Specimen.to_dict: the JSON-LD header and the four required fields, then each
\* optional field that is not None.
Specimen_to_dict(S) ==
    [x \in {"@context", "@type", "id", "version", "type", "species"}
           \cup {k \in {"strain", "stage", "created", "batch", "organization",
                        "creator", "custom", "signature"} : S[k] # <<>>} |->
        CASE x = "@context"     -> JStr(WOLS_CONTEXT)
          [] x = "@type"        -> JStr("Specimen")
          [] x = "id"           -> JStr(S.id)
          [] x = "version"      -> JStr(S.version)
          [] x = "type"         -> JStr(S.type)
          [] x = "species"      -> JStr(S.species)
          [] x = "strain"       -> JObj(Strain_to_dict(S.strain[1]))
          [] x = "stage"        -> JStr(S.stage[1])
          [] x = "created"      -> JStr(isoformat(S.created[1]))
          [] x = "batch"        -> JStr(S.batch[1])
          [] x = "organization" -> JStr(S.organization[1])
          [] x = "creator"      -> JStr(S.creator[1])
          [] x = "custom"       -> JObj(S.custom[1])
          [] x = "signature"    -> JStr(S.signature[1])]

\* A Specimen with the four required fields and every optional field None.
MinimalSpecimen(id, version, type, species) ==
    [id |-> id, version |-> version, type |-> type, species |-> species,
     strain |-> <<>>, stage |-> <<>>, created |-> <<>>, batch |-> <<>>,
     organization |-> <<>>, creator |-> <<>>, custom |-> <<>>, signature |-> <<>>]


(***************************************************************************)
(* Version strings.  A version string is a sequence of segments, a segment *)
(* a non-empty sequence of decimal digits: "1.10.0" is                     *)
(* << <<1>>, <<1,0>>, <<0>> >>.                                            *)
(***************************************************************************)
V1_0_0  == << <<1>>, <<0>>, <<0>> >>
V1_0_9  == << <<1>>, <<0>>, <<9>> >>
V1_0_10 == << <<1>>, <<0>>, <<1, 0>> >>
V1_1_0  == << <<1>>, <<1>>, <<0>> >>
V1_2_0  == << <<1>>, <<2>>, <<0>> >>

\* The version strings of the model's registrations and records.
Versions == {V1_0_0, V1_0_9, V1_0_10, V1_1_0, V1_2_0}

\* The edges the model registers: forward edges, two edges out of one version,
\* an edge to a lower version and an edge to its own version.
Edges ==
    {<<V1_0_0, V1_1_0>>, <<V1_1_0, V1_2_0>>, <<V1_0_0, V1_0_9>>, <<V1_0_0, V1_0_10>>,
     <<V1_0_9, V1_1_0>>, <<V1_0_9, V1_0_0>>, <<V1_0_0, V1_0_0>>}

\* constants.py: WOLS_VERSION = "1.1.0"
WOLS_VERSION == V1_1_0

\* int(x) of a segment of digits.
SegInt(seg) ==
    CHOOSE n \in 0..(10 ^ Len(seg) - 1) :
        \A i \in 1..Len(seg) : (n \div (10 ^ (Len(seg) - i))) % 10 = seg[i]

\* compare_versions.parse: tuple(int(x) for x in v.split("."))
parse(v) == [i \in 1..Len(v) |-> SegInt(v[i])]

\* The characters of a version string are code points: a digit d is 48 + d, the
\* separating "." is 46.
\* Segment k of v with the "." that follows it in the string, if any.
VersionChars(v, k) ==
    [i \in 1..Len(v[k]) |-> 48 + v[k][i]] \o (IF k < Len(v) THEN <<46>> ELSE <<>>)

\* Python's "<" on two version strings (str comparison, by code point): the first
\* segment whose characters differ decides.
StrLess(a, b) ==
    \E i \in 1..Len(b) :
        /\ \A j \in 1..(i - 1) : j <= Len(a) /\ VersionChars(a, j) = VersionChars(b, j)
        /\ i <= Len(a)
        /\ SeqLess(VersionChars(a, i), VersionChars(b, i))

\* A comparison of the version strings as str.
compare_versions_mut(a, b) ==
    IF StrLess(a, b) THEN -1
    ELSE IF StrLess(b, a) THEN 1
    ELSE 0

\* compare_versions(a, b): -1, 0 or 1 by tuple comparison of the parsed versions.
compare_versions(a, b) ==
    LET va == parse(a)
        vb == parse(b)
    IN IF SeqLess(va, vb) THEN -1
       ELSE IF SeqLess(vb, va) THEN 1
       ELSE 0

(***************************************************************************)
(* The migration registry: a dict keyed by (from_version, to_version),     *)
(* which iterates in insertion order.  An entry is [from, to, h]; h names  *)
(* the registered handler.                                                 *)
(***************************************************************************)
\* The handlers of the model: "setver" sets data["version"] to the edge's
\* target and returns data (the handlers of the test-suite and of the
\* docstring); "ident" returns data unchanged.
Handlers == {"setver", "ident"}

\* The handlers that change their argument in place: "setver" assigns a key of
\* data itself; "nest" changes a value data holds,
\*     data.setdefault("custom", {})["migrated_to"] = to_version; return data
InPlaceHandlers == {"setver", "nest"}

\* handler(data) of the entry e.
ApplyHandler(e, data) ==
    IF e.h = "setver" THEN Put(data, "version", JStr(e.to))
    ELSE IF e.h = "nest"
    THEN Put(data, "custom",
             JObj(Put(Get(data, "custom", JObj(EmptyDict)).v, "migrated_to", JStr(e.to))))
    ELSE data

HasKey(reg, f, t) == \E i \in 1..Len(reg) : reg[i].from = f /\ reg[i].to = t

\* _MIGRATION_REGISTRY[(from_version, to_version)] = handler
dict_setitem(reg, f, t, h) ==
    IF HasKey(reg, f, t)
    THEN [i \in 1..Len(reg) |->
            IF reg[i].from = f /\ reg[i].to = t THEN [reg[i] EXCEPT !.h = h] ELSE reg[i]]
    ELSE Append(reg, [from |-> f, to |-> t, h |-> h])

\* Tuple order of two registry items ((from, to), handler): keys are unique, so
\* the key decides; the key is a tuple of two str.
ItemLess(x, y) ==
    \/ StrLess(x.from, y.from)
    \/ x.from = y.from /\ StrLess(x.to, y.to)

\* sorted(_MIGRATION_REGISTRY.items()): the item at place k of the result is the
\* one with k - 1 smaller items (the keys of a dict are distinct).
sorted(reg) ==
    LET rank(i) == 1 + Cardinality({j \in 1..Len(reg) : ItemLess(reg[j], reg[i])})
    IN [k \in 1..Len(reg) |-> reg[CHOOSE i \in 1..Len(reg) : rank(i) = k]]

\* The first item of the iteration order its whose from-version is current:
\* <<e>>, or <<>> when the for loop ends without a break.
FirstFrom(its, current) ==
    LET hits == {i \in 1..Len(its) : its[i].from = current}
    IN IF hits = {} THEN <<>>
       ELSE <<its[CHOOSE i \in hits : \A j \in hits : i <= j]>>

\* can_migrate's for loop: "for from_v, to_v in _MIGRATION_REGISTRY".
can_migrate_for(reg, current) == FirstFrom(reg, current)

\* A scan that would skip the edges that do not lead upwards.
migrate_for_mut(reg, current) ==
    LET e == FirstFrom(sorted(reg), current)
    IN IF e # <<>> /\ compare_versions(e[1].to, current) > 0 THEN e ELSE <<>>

\* migrate's for loop: "for (from_v, to_v), handler in sorted(_MIGRATION_REGISTRY.items())".
migrate_for(reg, current) == FirstFrom(sorted(reg), current)

(***************************************************************************)
(* migration.py: the state machine.  The caller holds a record (input) and *)
(* calls can_migrate and migrate on it; each call runs its while loop one  *)
(* test and one for-scan at a time.  The calls of this specification are   *)
(* sequential: the registry and the record change only between calls.      *)
(***************************************************************************)
\* The identifier of the model's migration records.
SampleId == ID_PREFIX \o <<":">> \o <<"a", "b", "c">>

\* A raw mapping with the three required fields.
RawRecord ==
    [x \in {"id", "type", "species"} |->
        CASE x = "id"      -> JStr(SampleId)
          [] x = "type"    -> JStr("CULTURE")
          [] x = "species" -> JStr("Pleurotus ostreatus")]

\* The records the caller passes: raw mappings with and without a version
\* field, and typed Specimens.
\* A record is [typed, val, obj]: a raw mapping val, or (typed) a Specimen obj[1].
MigInputs ==
    {[typed |-> FALSE, val |-> RawRecord, obj |-> <<>>]}
    \cup {[typed |-> FALSE, val |-> Put(RawRecord, "version", JStr(v)), obj |-> <<>>] :
            v \in Versions}
    \cup {[typed |-> TRUE, val |-> EmptyDict,
           obj |-> <<MinimalSpecimen(SampleId, v, "CULTURE", "Pleurotus ostreatus")>>] :
            v \in Versions}

\* The records of a caller whose transforms work in place: those of MigInputs,
\* and records that hold a nested mapping under "custom".
InPlaceInputs ==
    MigInputs
    \cup {[typed |-> FALSE,
           val |-> Put(Put(RawRecord, "version", JStr(V1_0_0)), "custom",
                       JObj([x \in {"note"} |-> JStr("kept")])),
           obj |-> <<>>],
          [typed |-> TRUE, val |-> EmptyDict,
           obj |-> <<[MinimalSpecimen(SampleId, V1_0_0, "CULTURE", "Pleurotus ostreatus")
                        EXCEPT !.custom = <<[x \in {"note"} |-> JStr("kept")]>>]>>]}

\* The callers of the codecs and of the validator, before their first call.
JsIdle == [pc |-> "idle"]
UrlIdle == [pc |-> "idle"]
VrIdle == [pc |-> "idle"]

\* The callers of the other library functions, before their first call.
CrIdle == [pc |-> "idle"]
TaIdle == [pc |-> "idle"]
GnIdle == [pc |-> "idle"]
PsIdle == [pc |-> "idle"]
CvIdle == [pc |-> "idle"]
EnIdle == [pc |-> "idle"]

\* type_aliases.py, lines 14-45: the built-in entries of _TYPE_ALIAS_REGISTRY,
\* as <<alias, type>> pairs.
BUILTIN_TYPE_ALIASES ==
    <<
      <<<<"L", "I", "Q", "U", "I", "D", "_", "C", "U", "L", "T", "U", "R", "E">>, "CULTURE">>,
      <<<<"L", "C">>, "CULTURE">>,
      <<<<"A", "G", "A", "R">>, "CULTURE">>,
      <<<<"P", "E", "T", "R", "I">>, "CULTURE">>,
      <<<<"S", "L", "A", "N", "T">>, "CULTURE">>,
      <<<<"C", "U", "L", "T", "U", "R", "E", "_", "P", "L", "A", "T", "E">>, "CULTURE">>,
      <<<<"G", "R", "A", "I", "N", "_", "S", "P", "A", "W", "N">>, "SPAWN">>,
      <<<<"S", "A", "W", "D", "U", "S", "T", "_", "S", "P", "A", "W", "N">>, "SPAWN">>,
      <<<<"P", "L", "U", "G", "_", "S", "P", "A", "W", "N">>, "SPAWN">>,
      <<<<"D", "O", "W", "E", "L">>, "SPAWN">>,
      <<<<"B", "L", "O", "C", "K">>, "SUBSTRATE">>,
      <<<<"B", "A", "G">>, "SUBSTRATE">>,
      <<<<"B", "E", "D">>, "SUBSTRATE">>,
      <<<<"L", "O", "G">>, "SUBSTRATE">>,
      <<<<"B", "U", "C", "K", "E", "T">>, "SUBSTRATE">>,
      <<<<"F", "L", "U", "S", "H">>, "FRUITING">>,
      <<<<"P", "I", "N", "N", "I", "N", "G">>, "FRUITING">>,
      <<<<"P", "R", "I", "M", "O", "R", "D", "I", "A">>, "FRUITING">>,
      <<<<"F", "R", "U", "I", "T">>, "FRUITING">>,
      <<<<"F", "I", "R", "S", "T", "_", "F", "L", "U", "S", "H">>, "FRUITING">>,
      <<<<"F", "R", "E", "S", "H">>, "HARVEST">>,
      <<<<"D", "R", "I", "E", "D">>, "HARVEST">>,
      <<<<"P", "R", "O", "C", "E", "S", "S", "E", "D">>, "HARVEST">>,
      <<<<"E", "X", "T", "R", "A", "C", "T">>, "HARVEST">>
    >>

\* The dict the module starts with: alias -> type.
TypeAliasRegistry0 ==
    [k \in {BUILTIN_TYPE_ALIASES[i][1] : i \in 1..Len(BUILTIN_TYPE_ALIASES)} |->
        BUILTIN_TYPE_ALIASES[CHOOSE i \in 1..Len(BUILTIN_TYPE_ALIASES) :
                                BUILTIN_TYPE_ALIASES[i][1] = k][2]]

\* The state of the parts of the library a specification does not exercise.
LibIdle ==
    /\ cr = CrIdle
    /\ TYPE_ALIAS_REGISTRY = TypeAliasRegistry0
    /\ ta = TaIdle
    /\ gn = GnIdle
    /\ ps = PsIdle
    /\ cv = CvIdle
    /\ en = EnIdle

\* An activation that is not running.  seen lists the contents the registry had
\* during the call before another thread changed it (none in a sequential
\* program).
CmIdle == [pc |-> "idle", current |-> <<>>, result |-> <<>>, seen |-> <<>>]
MgIdle == [pc |-> "idle", current |-> <<>>, data |-> <<>>, applied |-> <<>>,
           seen |-> <<>>]

CmRunning == cm.pc \in {"while", "for"}
MgRunning == mg.pc \in {"while", "for"}
Quiet == ~CmRunning /\ ~MgRunning

\* The default version of a record without a version field (migration.py:138, 178).
DEFAULT_VERSION == V1_0_0

\* can_migrate, lines 137-140: the version the walk starts from.
can_migrate_version(rec) ==
    IF ~rec.typed
    THEN Get(rec.val, "version", JStr(DEFAULT_VERSION)).v
    ELSE rec.obj[1].version

\* migrate, line 177: dict(specimen) or specimen.to_dict()
migrate_data(rec) ==
    IF ~rec.typed THEN rec.val ELSE Specimen_to_dict(rec.obj[1])

\* migrate, line 178: data.get("version", "1.0.0")
migrate_version(data) == Get(data, "version", JStr(DEFAULT_VERSION)).v

\* migrate, line 177: dict(specimen) copies the caller's dict itself and
\* specimen.to_dict() builds a new one (models/specimen.py, lines 91-118), but
\* the values are the caller's objects.  The keys of data whose value is a
\* mutable object that the caller's record holds too: the nested mappings.
shared_keys(rec) ==
    IF ~rec.typed
    THEN {k \in DOMAIN rec.val : rec.val[k].t = "obj"}
    ELSE {k \in {"custom"} : rec.obj[1].custom # <<>>}

\* The caller's record after handler(data) of the entry e returned after: a
\* change "nest" made in place to a shared value is a change of the value the
\* record holds.  No handler of the model binds "custom" to another object, so
\* the value stays shared for the whole walk.
record_after(rec, e, after) ==
    IF e.h = "nest" /\ "custom" \in shared_keys(rec)
    THEN IF ~rec.typed
         THEN [rec EXCEPT !.val = Put(rec.val, "custom", after["custom"])]
         ELSE [rec EXCEPT !.obj = <<[rec.obj[1] EXCEPT !.custom = <<after["custom"].v>>]>>]
    ELSE rec

\* The loop test of both walks: compare_versions(current, WOLS_VERSION) < 0
loop_test(current) == compare_versions(current, WOLS_VERSION) < 0

MigInit ==
    /\ LibIdle
    /\ MIGRATION_REGISTRY = <<>>
    /\ input \in MigInputs
    /\ cm = CmIdle
    /\ mg = MgIdle
    /\ js = JsIdle
    /\ url = UrlIdle
    /\ vr = VrIdle

\* register_migration(from_version, to_version, handler)
register_migration(f, t, h) ==
    /\ Quiet
    /\ HasKey(MIGRATION_REGISTRY, f, t) \/ Len(MIGRATION_REGISTRY) < MaxEdges
    /\ MIGRATION_REGISTRY' = dict_setitem(MIGRATION_REGISTRY, f, t, h)
    /\ cm' = CmIdle
    /\ mg' = MgIdle
    /\ UNCHANGED <<input, js, url, vr, libVars>>

\* clear_migrations()
clear_migrations ==
    /\ Quiet
    /\ MIGRATION_REGISTRY' = <<>>
    /\ cm' = CmIdle
    /\ mg' = MgIdle
    /\ UNCHANGED <<input, js, url, vr, libVars>>

\* The caller takes up another record.
SetInput(rec) ==
    /\ Quiet
    /\ rec # input
    /\ input' = rec
    /\ cm' = CmIdle
    /\ mg' = MgIdle
    /\ UNCHANGED <<MIGRATION_REGISTRY, js, url, vr, libVars>>

\* can_migrate(specimen), lines 137-146: up to the first loop test.
CanMigrateCall ==
    /\ Quiet
    /\ LET version == can_migrate_version(input)
       IN IF compare_versions(version, WOLS_VERSION) >= 0
          THEN cm' = [pc |-> "done", current |-> <<version>>, result |-> <<TRUE>>,
                      seen |-> <<>>]
          ELSE cm' = [pc |-> "while", current |-> <<version>>, result |-> <<>>,
                      seen |-> <<>>]
    /\ UNCHANGED <<MIGRATION_REGISTRY, input, mg, js, url, vr, libVars>>

\* can_migrate, line 147 and line 157: the while test.
CanMigrateWhile ==
    /\ cm.pc = "while"
    /\ IF loop_test(cm.current[1])
       THEN cm' = [cm EXCEPT !.pc = "for"]
       ELSE cm' = [cm EXCEPT !.pc = "done", !.result = <<TRUE>>]
    /\ UNCHANGED <<MIGRATION_REGISTRY, input, mg, js, url, vr, libVars>>

\* can_migrate, lines 148-155: one scan of the registry.
CanMigrateFor ==
    /\ cm.pc = "for"
    /\ LET e == can_migrate_for(MIGRATION_REGISTRY, cm.current[1])
       IN IF e # <<>>
          THEN cm' = [cm EXCEPT !.pc = "while", !.current = <<e[1].to>>]
          ELSE cm' = [cm EXCEPT !.pc = "done", !.result = <<FALSE>>]
    /\ UNCHANGED <<MIGRATION_REGISTRY, input, mg, js, url, vr, libVars>>

\* The edges applied so far, with one more: only the first MaxTrace are kept.
Record(applied, e) ==
    IF Len(applied) < MaxTrace THEN Append(applied, <<e.from, e.to>>) ELSE applied

\* migrate(specimen), lines 177-183: up to the first loop test.
MigrateCall ==
    /\ Quiet
    /\ LET data    == migrate_data(input)
           version == migrate_version(data)
       IN IF compare_versions(version, WOLS_VERSION) >= 0
          THEN mg' = [pc |-> "done", current |-> <<version>>, data |-> <<data>>,
                      applied |-> <<>>, seen |-> <<>>]
          ELSE mg' = [pc |-> "while", current |-> <<version>>, data |-> <<data>>,
                      applied |-> <<>>, seen |-> <<>>]
    /\ UNCHANGED <<MIGRATION_REGISTRY, input, cm, js, url, vr, libVars>>

\* migrate, line 184 and line 196: the while test.
MigrateWhile ==
    /\ mg.pc = "while"
    /\ IF loop_test(mg.current[1])
       THEN mg' = [mg EXCEPT !.pc = "for"]
       ELSE mg' = [mg EXCEPT !.pc = "done"]
    /\ UNCHANGED <<MIGRATION_REGISTRY, input, cm, js, url, vr, libVars>>

\* migrate, lines 185-194: one scan of the sorted registry; the handler of the
\* edge found is applied, or ValueError is raised.
MigrateFor ==
    /\ mg.pc = "for"
    /\ LET e == migrate_for(MIGRATION_REGISTRY, mg.current[1])
       IN IF e # <<>>
          THEN /\ mg' = [mg EXCEPT !.pc = "while",
                                   !.data = <<ApplyHandler(e[1], mg.data[1])>>,
                                   !.current = <<e[1].to>>,
                                   !.applied = Record(mg.applied, e[1])]
               /\ input' = record_after(input, e[1], ApplyHandler(e[1], mg.data[1]))
          ELSE /\ mg' = [mg EXCEPT !.pc = "raised"]
               /\ input' = input
    /\ UNCHANGED <<MIGRATION_REGISTRY, cm, js, url, vr, libVars>>

MigNext ==
    \/ \E e \in Edges, h \in Handlers : register_migration(e[1], e[2], h)
    \/ clear_migrations
    \/ \E rec \in MigInputs : SetInput(rec)
    \/ CanMigrateCall
    \/ CanMigrateWhile
    \/ CanMigrateFor
    \/ MigrateCall
    \/ MigrateWhile
    \/ MigrateFor

Spec == MigInit /\ [][MigNext]_vars

\* The caller whose records hold nested mappings and whose transforms work in
\* place.
InPlaceInit ==
    /\ LibIdle
    /\ MIGRATION_REGISTRY = <<>>
    /\ input \in InPlaceInputs
    /\ cm = CmIdle
    /\ mg = MgIdle
    /\ js = JsIdle
    /\ url = UrlIdle
    /\ vr = VrIdle

InPlaceNext ==
    \/ \E e \in Edges, h \in InPlaceHandlers : register_migration(e[1], e[2], h)
    \/ clear_migrations
    \/ \E rec \in InPlaceInputs : SetInput(rec)
    \/ MigrateCall
    \/ MigrateWhile
    \/ MigrateFor

InPlaceSpec == InPlaceInit /\ [][InPlaceNext]_vars

(***************************************************************************)
(* Concurrent callers.  migration.py takes no lock: a thread may call      *)
(* register_migration or clear_migrations while another thread is inside   *)
(* can_migrate or migrate.  The interpreter runs one thread at a time and  *)
(* may switch threads at the end of an iteration of a loop (and at calls): *)
(* sorted(_MIGRATION_REGISTRY.items()) of migrate is one step, the for     *)
(* loop of can_migrate over the dict itself is not.                        *)
(***************************************************************************)
\* The changes of the registry by other threads during one call.
MaxMutations == 1

\* The call that is running, if any.
WalkRunning == CmRunning \/ MgRunning
WalkSeen == IF CmRunning THEN cm.seen ELSE mg.seen

\* can_migrate, lines 148-152, is inside its for loop over the dict and has
\* finished an iteration without a break: the first key does not start at
\* current, so the loop asks the dict's iterator for another key.
scan_interrupted(reg, c) ==
    /\ c.pc = "for"
    /\ reg # <<>>
    /\ reg[1].from # c.current[1]

\* The registry becomes after while a call is running.  The call goes on with
\* the new contents; when the change happens between two iterations of the for
\* loop of can_migrate and changes the size of the dict, the iterator raises
\* RuntimeError (dictionary changed size during iteration).
mutate_concurrently(after) ==
    /\ WalkRunning
    /\ Len(WalkSeen) < MaxMutations
    /\ after # MIGRATION_REGISTRY
    /\ MIGRATION_REGISTRY' = after
    /\ IF MgRunning
       THEN /\ mg' = [mg EXCEPT !.seen = Append(@, MIGRATION_REGISTRY)]
            /\ cm' = cm
       ELSE /\ mg' = mg
            /\ \/ cm' = [cm EXCEPT !.seen = Append(@, MIGRATION_REGISTRY)]
               \/ /\ scan_interrupted(MIGRATION_REGISTRY, cm)
                  /\ Len(after) # Len(MIGRATION_REGISTRY)
                  /\ cm' = [cm EXCEPT !.pc = "raised",
                                      !.seen = Append(@, MIGRATION_REGISTRY)]
    /\ UNCHANGED <<input, js, url, vr, libVars>>

\* register_migration(from_version, to_version, handler) in another thread
register_migration_concurrently(f, t, h) ==
    /\ HasKey(MIGRATION_REGISTRY, f, t) \/ Len(MIGRATION_REGISTRY) < MaxEdges
    /\ mutate_concurrently(dict_setitem(MIGRATION_REGISTRY, f, t, h))

\* clear_migrations() in another thread
clear_migrations_concurrently ==
    /\ MIGRATION_REGISTRY # <<>>
    /\ mutate_concurrently(<<>>)

\* The edges the threads register: two paths from 1.0.0 to the current version.
ConcEdges == {<<V1_0_0, V1_0_9>>, <<V1_0_9, V1_1_0>>, <<V1_0_0, V1_1_0>>}

ConcNext ==
    \/ \E e \in ConcEdges : register_migration(e[1], e[2], "setver")
    \/ clear_migrations
    \/ \E e \in ConcEdges : register_migration_concurrently(e[1], e[2], "setver")
    \/ clear_migrations_concurrently
    \/ CanMigrateCall
    \/ CanMigrateWhile
    \/ CanMigrateFor
    \/ MigrateCall
    \/ MigrateWhile
    \/ MigrateFor

ConcInit ==
    /\ LibIdle
    /\ MIGRATION_REGISTRY = <<>>
    /\ input \in {r \in MigInputs : ~r.typed /\ can_migrate_version(r) \in {V1_0_0, V1_1_0}}
    /\ cm = CmIdle
    /\ mg = MgIdle
    /\ js = JsIdle
    /\ url = UrlIdle
    /\ vr = VrIdle

ConcSpec == ConcInit /\ [][ConcNext]_vars

\* A running call keeps running: the interpreter schedules the calling thread.
FairSpec ==
    /\ Spec
    /\ WF_vars(CanMigrateWhile \/ CanMigrateFor)
    /\ WF_vars(MigrateWhile \/ MigrateFor)

(***************************************************************************)
(* The JSON codec: core/serialize.py to_json, core/parse.py parse_specimen.*)
(* A JSON text is the sequence of the members json.dumps writes, in the    *)
(* dict's iteration order; a member is <<key, value>>, and the value of a  *)
(* nested object is again a sequence of members.                           *)
(***************************************************************************)
\* The elements of seq at the indices in keep, in order.
Compact(seq, keep) ==
    [k \in 1..Cardinality(keep) |->
        seq[CHOOSE i \in keep : Cardinality({j \in keep : j < i}) = k - 1]]

\* The iteration order of the model's dicts: the keys of Specimen.to_dict in
\* the order its code inserts them, then those of Strain.to_dict, then the keys
\* of the model's open mappings.
KeyOrder ==
    <<"@context", "@type", "id", "version", "type", "species", "strain", "stage",
      "created", "batch", "organization", "creator", "custom", "signature",
      "name", "generation", "clonalGeneration", "lineage", "source",
      "_meta", "note", "count", "source_id", "color", "weight">>

\* list(d): the keys of d in iteration order.
Keys(d) == Compact(KeyOrder, {i \in 1..Len(KeyOrder) : KeyOrder[i] \in DOMAIN d})

\* The members of a dict whose values are not objects.
Members(d) == [i \in 1..Cardinality(DOMAIN d) |-> <<Keys(d)[i], d[Keys(d)[i]]>>]

\* json.dumps(data) of a dict whose nested objects hold no further objects.
json_dumps(data) ==
    [i \in 1..Cardinality(DOMAIN data) |->
        LET k == Keys(data)[i]
        IN <<k, IF IsDict(data[k]) THEN JObj(Members(data[k].v)) ELSE data[k]>>]

\* The dict of a sequence of members: the last member of a key gives its value.
DictOf(ms) ==
    [k \in {ms[i][1] : i \in 1..Len(ms)} |->
        ms[CHOOSE i \in 1..Len(ms) :
              ms[i][1] = k /\ \A j \in (i + 1)..Len(ms) : ms[j][1] # k][2]]

\* json.loads(text) of the text of an object.
json_loads(text) ==
    [k \in DOMAIN DictOf(text) |->
        IF IsDict(DictOf(text)[k]) THEN JObj(DictOf(DictOf(text)[k].v))
        ELSE DictOf(text)[k]]

\* to_json(specimen)
to_json(S) == json_dumps(Specimen_to_dict(S))

\* The keyword arguments the Specimen dataclass accepts without a default.
RequiredArgs == {"id", "version", "type", "species"}

\* Specimen(**kw), the generated __init__: an unexpected keyword or a missing
\* required one is a TypeError; the optional fields default to None.
SpecimenNew(kw) ==
    IF ~(DOMAIN kw \subseteq SpecimenFields) \/ ~(RequiredArgs \subseteq DOMAIN kw)
    THEN [err |-> "TypeError", val |-> <<>>]
    ELSE [err |-> "",
          val |-> <<[f \in SpecimenFields |->
                      IF f \in RequiredArgs THEN kw[f]
                      ELSE IF f \in DOMAIN kw THEN <<kw[f]>>
                      ELSE <<>>]>>]

\* A timestamp text datetime.fromisoformat accepts.
IsIsoText(s) == Len(s) >= 3 /\ s[2] = "T"

\* The exception Specimen.from_dict(data) ends with ("" when it returns), in
\* the order its statements run.
from_dict_error(data) ==
    LET present(k) == k \in DOMAIN data /\ ~IsNone(data[k])
    IN CASE present("strain") /\ ~IsStr(data["strain"]) /\ ~IsDict(data["strain"])
              -> "TypeError"
         [] present("strain") /\ IsDict(data["strain"])
                /\ "name" \notin DOMAIN data["strain"].v
              -> "KeyError"
         [] present("stage")
                /\ ~(IsStr(data["stage"]) /\ data["stage"].v \in GrowthStage)
              -> "ValueError"
         [] present("created") /\ ~IsStr(data["created"])
              -> "AttributeError"
         [] present("created") /\ IsStr(data["created"])
                /\ ~IsIsoText(replaceZ(data["created"].v))
              -> "ValueError"
         [] "id" \notin DOMAIN data
              -> "KeyError"
         [] "type" \notin DOMAIN data
              -> "KeyError"
         [] ~(IsStr(data["type"]) /\ data["type"].v \in SpecimenType)
              -> "ValueError"
         [] "species" \notin DOMAIN data
              -> "KeyError"
         [] OTHER -> ""

\* Specimen.from_dict(data)
Specimen_from_dict(data) ==
    IF from_dict_error(data) # ""
    THEN [err |-> from_dict_error(data), val |-> <<>>]
    ELSE [err |-> "",
          val |-> <<[f \in SpecimenFields |->
              CASE f = "id"      -> IF IsNone(data["id"]) THEN <<>> ELSE data["id"].v
                [] f = "version" -> IF "version" \notin DOMAIN data THEN WOLS_VERSION
                                    ELSE IF IsNone(data["version"]) THEN <<>>
                                    ELSE data["version"].v
                [] f = "type"    -> data["type"].v
                [] f = "species" -> IF IsNone(data["species"]) THEN <<>>
                                    ELSE data["species"].v
                [] f = "strain"  -> IF GetOpt(data, "strain") = <<>> THEN <<>>
                                    ELSE IF IsStr(data["strain"])
                                    THEN <<StrainOf(data["strain"].v)>>
                                    ELSE <<Strain_from_dict(data["strain"].v)>>
                [] f = "created" -> IF GetOpt(data, "created") = <<>> THEN <<>>
                                    ELSE <<fromisoformat(replaceZ(data["created"].v))>>
                [] OTHER         -> GetOpt(data, f)]>>]

\* parse_specimen(json_str) of the text of a JSON object: WolsParseError with code
\* REQUIRED_FIELD or PARSE_ERROR, another exception of from_dict passed on, or
\* the Specimen.
parse_specimen(text) ==
    LET data == json_loads(text)
    IN IF ~({"id", "type", "species"} \subseteq DOMAIN data)
       THEN [err |-> "WolsParseError:REQUIRED_FIELD", val |-> <<>>]
       ELSE IF from_dict_error(data) \in {"KeyError", "ValueError"}
       THEN [err |-> "WolsParseError:PARSE_ERROR", val |-> <<>>]
       ELSE Specimen_from_dict(data)

(***************************************************************************)
(* The JSON round trip as a state machine: the caller builds a Specimen    *)
(* from keyword arguments, serialises it and parses the text back.         *)
(***************************************************************************)
\* The timestamps of the model: naive and aware, with and without microseconds.
SampleDates ==
    {[day |-> "2024-03-15", sec |-> "08:45:00", us |-> 0, tz |-> <<>>],
     [day |-> "2024-03-15", sec |-> "08:45:00", us |-> 500, tz |-> <<0>>],
     [day |-> "2024-03-15", sec |-> "08:45:00", us |-> 0, tz |-> <<120>>]}

\* The strains of the model: a name only, and every field set.
SampleStrains ==
    {StrainOf("Blue Oyster"),
     [name |-> "Blue Oyster", generation |-> <<3>>, clonal_generation |-> <<0>>,
      lineage |-> <<"wemush:parent">>, source |-> <<"lab">>]}

\* The open mappings of the model (custom, _meta).
SampleCustoms ==
    {EmptyDict, [x \in {"note", "count"} |-> IF x = "note" THEN JStr("dry") ELSE JNum(2)]}

SampleMeta == [x \in {"source_id"} |-> JStr("imported-123")]

\* The optional keyword arguments of the model: each optional field with its
\* sample values, and the provenance mapping _meta.
OptionalArgs ==
    [strain       |-> SampleStrains,
     stage        |-> {"INCUBATION", "HARVEST"},
     created      |-> SampleDates,
     batch        |-> {"B-1"},
     organization |-> {"WeMush"},
     creator      |-> {"ana"},
     custom       |-> SampleCustoms,
     signature    |-> {"sig"},
     _meta        |-> {SampleMeta}]

\* The keyword arguments of a minimal Specimen.
BaseArgs ==
    [x \in RequiredArgs |->
        CASE x = "id"      -> SampleId
          [] x = "version" -> WOLS_VERSION
          [] x = "type"    -> "SPAWN"
          [] x = "species" -> "Pleurotus eryngii"]

\* The most optional keyword arguments one construction passes.
MaxArgs == 3

JsonInit ==
    /\ LibIdle
    /\ MIGRATION_REGISTRY = <<>>
    /\ input = [typed |-> FALSE, val |-> RawRecord, obj |-> <<>>]
    /\ cm = CmIdle
    /\ mg = MgIdle
    /\ url = UrlIdle
    /\ vr = VrIdle
    /\ js = [pc |-> "args", kwargs |-> BaseArgs, specimen |-> <<>>, text |-> <<>>,
             parsed |-> <<>>, err |-> ""]

\* The caller adds one keyword argument.
AddArg(k, v) ==
    /\ js.pc = "args"
    /\ k \notin DOMAIN js.kwargs
    /\ Cardinality(DOMAIN js.kwargs) < Cardinality(RequiredArgs) + MaxArgs
    /\ js' = [js EXCEPT !.kwargs = Put(js.kwargs, k, v)]
    /\ UNCHANGED <<migVars, url, vr, libVars>>

\* Specimen(**kwargs)
NewSpecimen ==
    /\ js.pc = "args"
    /\ LET r == SpecimenNew(js.kwargs)
       IN js' = [js EXCEPT !.pc = IF r.err = "" THEN "built" ELSE "raised",
                           !.specimen = r.val, !.err = r.err]
    /\ UNCHANGED <<migVars, url, vr, libVars>>

\* to_json(specimen)
ToJson ==
    /\ js.pc = "built"
    /\ js' = [js EXCEPT !.pc = "dumped", !.text = <<to_json(js.specimen[1])>>]
    /\ UNCHANGED <<migVars, url, vr, libVars>>

\* parse_specimen(json_str)
ParseSpecimen ==
    /\ js.pc = "dumped"
    /\ LET r == parse_specimen(js.text[1])
       IN js' = [js EXCEPT !.pc = IF r.err = "" THEN "parsed" ELSE "raised",
                           !.parsed = r.val, !.err = r.err]
    /\ UNCHANGED <<migVars, url, vr, libVars>>

JsonNext ==
    \/ \E k \in DOMAIN OptionalArgs : \E v \in OptionalArgs[k] : AddArg(k, v)
    \/ NewSpecimen
    \/ ToJson
    \/ ParseSpecimen

JsonSpec == JsonInit /\ [][JsonNext]_vars

(***************************************************************************)
(* Characters.  The strings of the compact-URL codec and of the identifier *)
(* grammar are sequences of one-character strings.                         *)
(***************************************************************************)
Lower == <<"a", "b", "c", "d", "e", "f", "g", "h", "i", "j", "k", "l", "m", "n", "o", "p", "q", "r", "s", "t", "u", "v", "w", "x", "y", "z">>
Upper == <<"A", "B", "C", "D", "E", "F", "G", "H", "I", "J", "K", "L", "M", "N", "O", "P", "Q", "R", "S", "T", "U", "V", "W", "X", "Y", "Z">>
Digits == {"0", "1", "2", "3", "4", "5", "6", "7", "8", "9"}
Letters == {Lower[i] : i \in 1..Len(Lower)} \cup {Upper[i] : i \in 1..Len(Upper)}

\* c.upper() and c.lower() of one character.
UpperChar(c) ==
    IF \E k \in 1..Len(Lower) : Lower[k] = c
    THEN Upper[CHOOSE k \in 1..Len(Lower) : Lower[k] = c] ELSE c
LowerChar(c) ==
    IF \E k \in 1..Len(Upper) : Upper[k] = c
    THEN Lower[CHOOSE k \in 1..Len(Upper) : Upper[k] = c] ELSE c

\* s.upper(), s.lower()
upper(s) == [i \in 1..Len(s) |-> UpperChar(s[i])]
lower(s) == [i \in 1..Len(s) |-> LowerChar(s[i])]

\* The index of the first character of s at or after from that is in cs, or
\* Len(s) + 1 when there is none.
Find(s, cs, from) ==
    IF \E i \in from..Len(s) : s[i] \in cs
    THEN CHOOSE i \in from..Len(s) : s[i] \in cs /\ \A j \in from..(i - 1) : s[j] \notin cs
    ELSE Len(s) + 1

\* [p for p in s.split(sep) if p]: the non-empty pieces of s between separators.
SplitNonEmpty(s, sep) ==
    CHOOSE r \in
        {[k \in 1..Cardinality(starts) |->
            SubSeq(s, CHOOSE i \in starts : Cardinality({j \in starts : j < i}) = k - 1,
                   Find(s, {sep},
                        CHOOSE i \in starts : Cardinality({j \in starts : j < i}) = k - 1)
                     - 1)] :
         starts \in {{i \in 1..Len(s) : s[i] # sep /\ (i = 1 \/ s[i - 1] = sep)}}} : TRUE

\* s.rstrip("/")
rstrip_slash(s) ==
    IF \E i \in 1..Len(s) : s[i] # "/"
    THEN SubSeq(s, 1, CHOOSE i \in 1..Len(s) :
                         s[i] # "/" /\ \A j \in (i + 1)..Len(s) : s[j] = "/")
    ELSE <<>>

(***************************************************************************)
(* constants.py: the URL schemes and the code tables.  A table is the      *)
(* sequence of its <<code, name>> items in the order of the dict literal.  *)
(***************************************************************************)
WEMUSH == <<"w", "e", "m", "u", "s", "h">>
WEB_WEMUSH == <<"w", "e", "b", "+", "w", "e", "m", "u", "s", "h">>
HTTPS == <<"h", "t", "t", "p", "s">>

\* The values of the UrlScheme enum; VALID_URL_SCHEMES holds the same three.
UrlScheme == {WEMUSH, WEB_WEMUSH, HTTPS}
VALID_URL_SCHEMES == {WEMUSH, WEB_WEMUSH, HTTPS}

DEFAULT_HTTPS_BASE_URL == <<"h", "t", "t", "p", "s", ":", "/", "/", "w", "e", "m", "u", "s", "h", ".", "c", "o", "m", "/", "s">>

SPECIES_CODES ==
    <<<<<<"P", "O">>, "Pleurotus ostreatus">>,
      <<<<"P", "E">>, "Pleurotus eryngii">>,
      <<<<"P", "C">>, "Pleurotus citrinopileatus">>,
      <<<<"P", "P">>, "Pleurotus pulmonarius">>,
      <<<<"G", "L">>, "Ganoderma lucidum">>,
      <<<<"G", "A">>, "Ganoderma applanatum">>,
      <<<<"L", "E">>, "Lentinula edodes">>,
      <<<<"H", "E">>, "Hericium erinaceus">>,
      <<<<"H", "C">>, "Hericium coralloides">>,
      <<<<"F", "L">>, "Flammulina velutipes">>,
      <<<<"A", "B">>, "Agaricus bisporus">>,
      <<<<"A", "A">>, "Agaricus arvensis">>,
      <<<<"P", "S">>, "Psilocybe cubensis">>,
      <<<<"C", "A">>, "Cordyceps militaris">>,
      <<<<"T", "A">>, "Trametes versicolor">>,
      <<<<"G", "F">>, "Grifola frondosa">>,
      <<<<"L", "P">>, "Laetiporus sulphureus">>,
      <<<<"C", "M">>, "Cyclocybe aegerita">>,
      <<<<"S", "T">>, "Stropharia rugosoannulata">>,
      <<<<"P", "H">>, "Pholiota nameko">>,
      <<<<"H", "Y">>, "Hypsizygus tessellatus">>,
      <<<<"C", "O">>, "Coprinus comatus">>,
      <<<<"A", "M">>, "Armillaria mellea">>,
      <<<<"M", "O">>, "Morchella esculenta">>>>

STAGE_CODES ==
    <<<<<<"I", "N", "O">>, "INOCULATION">>,
      <<<<"C", "O", "L">>, "COLONIZATION">>,
      <<<<"F", "R", "U">>, "FRUITING">>,
      <<<<"H", "A", "R">>, "HARVEST">>>>

\* SPECIES_NAMES.get(name), SPECIES_NAMES = {v: k for k, v in SPECIES_CODES.items()}:
\* the code of the last item with that name, None without one.
SPECIES_NAMES_get(name) ==
    IF \E i \in 1..Len(SPECIES_CODES) : SPECIES_CODES[i][2] = name
    THEN <<SPECIES_CODES[CHOOSE i \in 1..Len(SPECIES_CODES) :
               /\ SPECIES_CODES[i][2] = name
               /\ \A j \in (i + 1)..Len(SPECIES_CODES) : SPECIES_CODES[j][2] # name][1]>>
    ELSE <<>>

\* STAGE_NAMES.get(name), STAGE_NAMES = {v: k for k, v in STAGE_CODES.items()}
STAGE_NAMES_get(name) ==
    IF \E i \in 1..Len(STAGE_CODES) : STAGE_CODES[i][2] = name
    THEN <<STAGE_CODES[CHOOSE i \in 1..Len(STAGE_CODES) :
               /\ STAGE_CODES[i][2] = name
               /\ \A j \in (i + 1)..Len(STAGE_CODES) : STAGE_CODES[j][2] # name][1]>>
    ELSE <<>>

\* STAGE_CODES.get(code)
STAGE_CODES_get(code) ==
    IF \E i \in 1..Len(STAGE_CODES) : STAGE_CODES[i][1] = code
    THEN <<STAGE_CODES[CHOOSE i \in 1..Len(STAGE_CODES) : STAGE_CODES[i][1] = code][2]>>
    ELSE <<>>

(***************************************************************************)
(* urllib.parse, as far as the codec uses it.                              *)
(***************************************************************************)
\* The characters urlsplit accepts in a scheme.
SchemeChars == Letters \cup Digits \cup {"+", "-", "."}

\* The schemes whose last path segment urlparse splits at ";" (uses_params),
\* among the schemes of the model.
UsesParams == {HTTPS}

\* urlsplit, the scheme: the text before the first ":" when it starts with a
\* letter and holds scheme characters only, lower-cased; rest is what follows.
split_scheme(u) ==
    CHOOSE r \in
        {IF /\ c > 1
            /\ c <= Len(u)
            /\ u[1] \in Letters
            /\ \A i \in 1..(c - 1) : u[i] \in SchemeChars
         THEN [scheme |-> lower(SubSeq(u, 1, c - 1)), rest |-> SubSeq(u, c + 1, Len(u))]
         ELSE [scheme |-> <<>>, rest |-> u] :
         c \in {Find(u, {":"}, 1)}} : TRUE

\* urlsplit, the authority: after "//", up to the next "/", "?" or "#".
split_netloc(u) ==
    CHOOSE r \in
        {IF Len(u) >= 2 /\ u[1] = "/" /\ u[2] = "/"
         THEN [netloc |-> SubSeq(u, 3, n - 1), rest |-> SubSeq(u, n, Len(u))]
         ELSE [netloc |-> <<>>, rest |-> u] :
         n \in {Find(u, {"/", "?", "#"}, 3)}} : TRUE

\* urlsplit, the rest: the fragment after "#" is dropped, the query is what
\* follows the first "?", the path what precedes it.
split_query(u) ==
    CHOOSE r \in
        {[path  |-> SubSeq(u, 1, Find(u, {"?", "#"}, 1) - 1),
          query |-> IF Find(u, {"?"}, 1) < h
                    THEN SubSeq(u, Find(u, {"?"}, 1) + 1, h - 1) ELSE <<>>] :
         h \in {Find(u, {"#"}, 1)}} : TRUE

\* urlparse's _splitparams: for a scheme in uses_params the path ends at the
\* first ";" of its last segment.
split_params(scheme, path) ==
    IF scheme \notin UsesParams THEN path
    ELSE CHOOSE r \in
        {SubSeq(path, 1, Find(path, {";"}, lastSlash + 1) - 1) :
         lastSlash \in {IF \E i \in 1..Len(path) : path[i] = "/"
                        THEN CHOOSE i \in 1..Len(path) :
                               path[i] = "/" /\ \A j \in (i + 1)..Len(path) : path[j] # "/"
                        ELSE 0}} : TRUE

\* urlparse(u): scheme, netloc, path and query.
urlparse(u) ==
    CHOOSE r \in UNION UNION
        {{{[scheme |-> a.scheme, netloc |-> b.netloc,
            path |-> split_params(a.scheme, c.path), query |-> c.query] :
           c \in {split_query(b.rest)}} :
          b \in {split_netloc(a.rest)}} :
         a \in {split_scheme(u)}} : TRUE

\* One "name=value" piece of a query string, as parse_qsl reads it: the name is
\* the text before the first "=", "+" stands for a blank in both.
PlusToBlank(s) == [i \in 1..Len(s) |-> IF s[i] = "+" THEN " " ELSE s[i]]
PieceName(p) == PlusToBlank(SubSeq(p, 1, Find(p, {"="}, 1) - 1))
PieceValue(p) == PlusToBlank(SubSeq(p, Find(p, {"="}, 1) + 1, Len(p)))

\* {k: v[0] for k, v in parse_qs(query).items()}: the pieces between "&" that
\* have an "=" and a non-empty value; the first value of a name is kept.
parse_qs_first(query) ==
    CHOOSE r \in UNION
        {{[k \in {PieceName(pieces[i]) : i \in good} |->
             PieceValue(pieces[CHOOSE i \in good :
                             /\ PieceName(pieces[i]) = k
                             /\ \A j \in good : j < i => PieceName(pieces[j]) # k])] :
          good \in {{i \in 1..Len(pieces) : Find(pieces[i], {"="}, 1) < Len(pieces[i])}}} :
         pieces \in {SplitNonEmpty(query, "&")}} : TRUE

(***************************************************************************)
(* core/serialize.py to_compact_url, core/parse.py parse_compact_url.      *)
(***************************************************************************)
\* to_compact_url, lines 92-94: the id without the "wemush:" prefix.
strip_prefix(id) ==
    IF startswith(id, ID_PREFIX \o <<":">>)
    THEN SubSeq(id, Len(ID_PREFIX) + 2, Len(id)) ELSE id

\* to_compact_url, lines 97-124: "&".join(params)
url_query(S, include_stage) ==
    <<"s", "=">> \o SPECIES_NAMES_get(S.species)[1]
      \o (IF include_stage /\ S.stage # <<>> /\ STAGE_NAMES_get(S.stage[1]) # <<>>
                 /\ STAGE_NAMES_get(S.stage[1])[1] # <<>>
          THEN <<"&", "s", "t", "=">> \o STAGE_NAMES_get(S.stage[1])[1]
          ELSE <<>>)

\* An encoder that leaves the s parameter out for a species without a code.
to_compact_url_mut(S, include_stage, scheme, base_url) ==
    IF scheme \notin UrlScheme THEN [err |-> "ValueError", val |-> <<>>]
    ELSE [err |-> "",
          val |-> <<(IF scheme = HTTPS
                     THEN rstrip_slash(IF base_url # <<>> /\ base_url[1] # <<>>
                                       THEN base_url[1] ELSE DEFAULT_HTTPS_BASE_URL)
                            \o <<"/", "v", "1", "/">> \o strip_prefix(S.id)
                     ELSE scheme \o <<":", "/", "/", "v", "1", "/">> \o strip_prefix(S.id))
                    \o (IF SPECIES_NAMES_get(S.species) = <<>> THEN <<>>
                        ELSE <<"?">> \o url_query(S, include_stage))>>]

\* to_compact_url(specimen, include_stage=..., scheme=..., base_url=...): the
\* URL, ValueError for a scheme outside UrlScheme, or WolsValidationError for a
\* species without a code.
to_compact_url(S, include_stage, scheme, base_url) ==
    IF scheme \notin UrlScheme THEN [err |-> "ValueError", val |-> <<>>]
    ELSE IF SPECIES_NAMES_get(S.species) = <<>> \/ SPECIES_NAMES_get(S.species)[1] = <<>>
    THEN [err |-> "WolsValidationError:species", val |-> <<>>]
    ELSE [err |-> "",
          val |-> <<(IF scheme = HTTPS
                     THEN rstrip_slash(IF base_url # <<>> /\ base_url[1] # <<>>
                                       THEN base_url[1] ELSE DEFAULT_HTTPS_BASE_URL)
                            \o <<"/", "v", "1", "/">> \o strip_prefix(S.id)
                     ELSE scheme \o <<":", "/", "/", "v", "1", "/">> \o strip_prefix(S.id))
                    \o <<"?">> \o url_query(S, include_stage)>>]

\* A decoder that segments the path alone under every scheme.
path_parts_mut(parsed) == SplitNonEmpty(parsed.path, "/")

\* parse_compact_url, lines 117-119: the non-empty path segments.
path_parts(parsed) ==
    CHOOSE r \in
        {SplitNonEmpty(path, "/") :
         path \in {IF parsed.scheme = HTTPS THEN parsed.path
                   ELSE parsed.netloc \o parsed.path}} : TRUE

\* A decoder that passes the st value on as the stage.
url_stage_mut(params) ==
    IF <<"s", "t">> \in DOMAIN params THEN <<upper(params[<<"s", "t">>])>> ELSE <<>>

\* parse_compact_url, lines 152-158: the stage of the st parameter.
url_stage(params) ==
    IF <<"s", "t">> \in DOMAIN params
         /\ STAGE_CODES_get(upper(params[<<"s", "t">>])) # <<>>
         /\ STAGE_CODES_get(upper(params[<<"s", "t">>]))[1] \in GrowthStage
    THEN STAGE_CODES_get(upper(params[<<"s", "t">>]))
    ELSE <<>>

\* parse_compact_url, lines 104-165, on the parsed URL, its path segments and
\* its flattened query parameters.
specimen_ref(parsed, parts, params) ==
    IF parsed.scheme \notin VALID_URL_SCHEMES
    THEN [err |-> "WolsParseError:INVALID_SCHEME", val |-> <<>>]
    ELSE IF \A k \in 1..Len(parts) : parts[k] # <<"v", "1">>
    THEN [err |-> "WolsParseError:INVALID_PATH", val |-> <<>>]
    ELSE CHOOSE r \in
        {IF Len(parts) <= v1_index
         THEN [err |-> "WolsParseError:INVALID_PATH", val |-> <<>>]
         ELSE [err |-> "",
               val |-> <<[id           |-> parts[v1_index + 1],
                          species_code |-> IF <<"s">> \in DOMAIN params
                                           THEN <<params[<<"s">>]>> ELSE <<>>,
                          stage        |-> url_stage(params),
                          params       |-> params]>>] :
         v1_index \in {CHOOSE k \in 1..Len(parts) :
                          /\ parts[k] = <<"v", "1">>
                          /\ \A j \in 1..(k - 1) : parts[j] # <<"v", "1">>}} : TRUE

\* urlsplit raises ValueError ("Invalid IPv6 URL") for an authority with one
\* square bracket and not the other.
urlparse_raises(u) ==
    \E n \in {split_netloc(split_scheme(u).rest).netloc} :
        (\E i \in 1..Len(n) : n[i] = "[") # (\E i \in 1..Len(n) : n[i] = "]")

\* parse_compact_url(url): the SpecimenRef, or WolsParseError with its code;
\* lines 95-102 turn the ValueError of urlparse into INVALID_URL.
parse_compact_url(u) ==
    IF urlparse_raises(u) THEN [err |-> "WolsParseError:INVALID_URL", val |-> <<>>]
    ELSE CHOOSE r \in UNION
        {{specimen_ref(parsed, parts, params) :
          parts \in {path_parts(parsed)}, params \in {parse_qs_first(parsed.query)}} :
         parsed \in {urlparse(u)}} : TRUE

(***************************************************************************)
(* The compact-URL codec as a state machine: the caller encodes a Specimen *)
(* and decodes the URL, or decodes a URL received from elsewhere.          *)
(***************************************************************************)
\* The identifier suffixes of the model: lowercase alphanumeric ones (one of
\* them the version marker itself), an uppercase one, suffixes holding a
\* character the URL grammar reserves, and the empty suffix.
SampleSuffixes ==
    {<<"a", "b", "c", "1", "2", "3">>,
     <<"v", "1">>,
     <<"A", "B", "C">>,
     <<"a", "/", "b">>,
     <<"a", "?", "b">>,
     <<"a", "#", "b">>,
     <<>>}

\* The ids of the model's Specimens: prefixed, and one without the prefix.
SampleIds == {ID_PREFIX \o <<":">> \o x : x \in SampleSuffixes} \cup {<<"x", "y", "z">>}

\* The species of the model: two with a registered code, one without.
SampleSpecies == {"Pleurotus ostreatus", "Hericium erinaceus", "Amanita muscaria"}

\* The base URLs a caller passes: None, one with a trailing slash, and one
\* whose path holds the version marker.
SampleBases ==
    {<<>>, <<<<"h", "t", "t", "p", "s", ":", "/", "/", "h", ".", "i", "o", "/", "p", "/">>>>, <<<<"h", "t", "t", "p", "s", ":", "/", "/", "h", ".", "i", "o", "/", "v", "1", "/", "x">>>>}

\* A URL with an st parameter, as a label printed elsewhere carries it.
StageUrl(code) == <<"w", "e", "b", "+", "w", "e", "m", "u", "s", "h", ":", "/", "/", "v", "1", "/", "a", "b", "c", "1", "2", "3", "?", "s", "t", "=">> \o code

\* The URLs the caller decodes without having encoded them.
SampleUrls ==
    {StageUrl(code) : code \in {<<"I", "N", "O">>, <<"I", "N", "C">>, <<"C", "O", "L">>, <<"P", "R", "I">>, <<"F", "R", "U">>, <<"S", "E", "N">>, <<"H", "A", "R">>, <<"h", "a", "r">>, <<"X", "X", "X">>, <<"H", "A", "R", "V", "E", "S", "T">>, <<"7">>}}
    \cup {<<"w", "e", "m", "u", "s", "h", ":", "/", "/", "v", "1", "/", "a", "b", "c", "1", "2", "3", "?", "s", "=", "P", "O", "&", "s", "=", "H", "E", "&", "x">>,
          <<"h", "t", "t", "p", "s", ":", "/", "/", "w", "e", "m", "u", "s", "h", ".", "c", "o", "m", "/", "s", "/", "v", "1", "/", "a", "b", "c", "1", "2", "3", "?", "s", "=", "P", "O">>,
          <<"f", "t", "p", ":", "/", "/", "v", "1", "/", "a", "b", "c", "1", "2", "3">>,
          <<"w", "e", "m", "u", "s", "h", ":", "/", "/", "v", "2", "/", "a", "b", "c", "1", "2", "3">>,
          <<"w", "e", "m", "u", "s", "h", ":", "/", "/", "v", "1">>,
          <<"h", "t", "t", "p", "s", ":", "/", "/", "v", "1", "/", "a", "b", "c", "1", "2", "3">>,
          <<"v", "1", "/", "a", "b", "c", "1", "2", "3">>,
          <<"f", "t", "p", ":", "/", "/", "[", "x", "/", "v", "1", "/", "a", "b", "c", "1", "2", "3">>,
          <<"w", "e", "m", "u", "s", "h", ":", "/", "/", "[", "x", "/", "v", "1", "/", "a", "b", "c", "1", "2", "3">>,
          <<"W", "E", "M", "U", "S", "H", ":", "/", "/", "v", "1", "/", "a", "b", "c", "1", "2", "3">>,
          <<"w", "e", "m", "u", "s", "h", ":", "/", "/", "h", "o", "s", "t", "/", "v", "1", "/", "a", "b", "c", "1", "2", "3", "/", "e", "x", "t", "r", "a">>,
          <<"h", "t", "t", "p", "s", ":", "/", "/", "h", ".", "i", "o", "/", "p", "/", "v", "1">>,
          <<"h", "t", "t", "p", "s", ":", "/", "/", "h", ".", "i", "o", "/", "v", "1", "/", "a", "b", "c", "1", "2", "3", ";", "k", "?", "s", "=", "P", "O">>,
          <<"w", "e", "m", "u", "s", "h", ":", "v", "1", "/", "a", "b", "c", "1", "2", "3">>,
          <<"w", "e", "m", "u", "s", "h", ":", "/", "/", "v", "1", "/", "/", "a", "b", "c", "1", "2", "3">>,
          <<"w", "e", "b", "+", "w", "e", "m", "u", "s", "h", ":", "/", "/", "x", "/", "v", "1", "/", "v", "1">>}

\* The Specimen the caller encodes: only id, species and stage are read.
UrlSpecimen(id, species, stage) ==
    [MinimalSpecimen(id, WOLS_VERSION, "CULTURE", species) EXCEPT !.stage = stage]

UrlInit ==
    /\ LibIdle
    /\ MIGRATION_REGISTRY = <<>>
    /\ input = [typed |-> FALSE, val |-> RawRecord, obj |-> <<>>]
    /\ cm = CmIdle
    /\ mg = MgIdle
    /\ js = JsIdle
    /\ vr = VrIdle
    /\ \/ \E id \in SampleIds, sp \in SampleSpecies,
             st \in {<<>>} \cup {<<g>> : g \in GrowthStage},
             inc \in BOOLEAN, sch \in UrlScheme, base \in SampleBases :
            url = [pc |-> "start", specimen |-> <<UrlSpecimen(id, sp, st)>>,
                   include_stage |-> inc, scheme |-> sch, base_url |-> base,
                   text |-> <<>>, ref |-> <<>>, err |-> ""]
       \/ \E u \in SampleUrls :
            url = [pc |-> "encoded", specimen |-> <<>>,
                   include_stage |-> TRUE, scheme |-> <<>>, base_url |-> <<>>,
                   text |-> <<u>>, ref |-> <<>>, err |-> ""]

\* to_compact_url(specimen, include_stage=..., scheme=..., base_url=...)
ToCompactUrl ==
    /\ url.pc = "start"
    /\ LET r == to_compact_url(url.specimen[1], url.include_stage, url.scheme,
                               url.base_url)
       IN url' = [url EXCEPT !.pc = IF r.err = "" THEN "encoded" ELSE "raised",
                             !.text = r.val, !.err = r.err]
    /\ UNCHANGED <<migVars, js, vr, libVars>>

\* parse_compact_url(url)
ParseCompactUrl ==
    /\ url.pc = "encoded"
    /\ LET r == parse_compact_url(url.text[1])
       IN url' = [url EXCEPT !.pc = IF r.err = "" THEN "decoded" ELSE "raised",
                             !.ref = r.val, !.err = r.err]
    /\ UNCHANGED <<migVars, js, vr, libVars>>

UrlNext ==
    \/ ToCompactUrl
    \/ ParseCompactUrl

UrlSpec == UrlInit /\ [][UrlNext]_vars

(***************************************************************************)
(* core/validate.py: the identifier patterns and validate_specimen_id.     *)
(***************************************************************************)
\* The character class [a-z0-9].
LowerAlnum == {Lower[i] : i \in 1..Len(Lower)} \cup Digits

\* The class [0-9a-f] under re.IGNORECASE.
HexChars == Digits \cup {"a", "b", "c", "d", "e", "f", "A", "B", "C", "D", "E", "F"}

\* The class [0-9A-HJKMNP-TV-Z] under re.IGNORECASE.
CrockfordChars ==
    Digits \cup {c \in Letters : UpperChar(c) \notin {"I", "L", "O", "U"}}

\* The text a pattern ending in "$" has to match in full: "$" also matches just
\* before a final newline.
BeforeDollar(s) ==
    IF Len(s) >= 1 /\ s[Len(s)] = "\n" THEN SubSeq(s, 1, Len(s) - 1) ELSE s

\* ID_PATTERN.match(s), ID_PATTERN = ^wemush:[a-z0-9]{24}$
ID_PATTERN_match(s) ==
    /\ startswith(s, ID_PREFIX \o <<":">>)
    /\ Len(BeforeDollar(s)) = Len(ID_PREFIX) + 1 + 24
    /\ \A i \in (Len(ID_PREFIX) + 2)..Len(BeforeDollar(s)) : s[i] \in LowerAlnum

\* STRICT_PATTERN.match(s), STRICT_PATTERN = ^wemush:[a-z0-9]+$
STRICT_PATTERN_match(s) ==
    /\ startswith(s, ID_PREFIX \o <<":">>)
    /\ Len(BeforeDollar(s)) >= Len(ID_PREFIX) + 2
    /\ \A i \in (Len(ID_PREFIX) + 2)..Len(BeforeDollar(s)) : s[i] \in LowerAlnum

\* ULID_PATTERN.match(s)
ULID_PATTERN_match(s) ==
    /\ Len(BeforeDollar(s)) = 26
    /\ \A i \in 1..Len(BeforeDollar(s)) : s[i] \in CrockfordChars

\* UUID_PATTERN.match(s)
UUID_PATTERN_match(s) ==
    /\ Len(BeforeDollar(s)) = 36
    /\ \A i \in 1..36 :
         CASE i \in {9, 14, 19, 24} -> s[i] = "-"
           [] i = 15                -> s[i] = "4"
           [] i = 20                -> s[i] \in {"8", "9", "a", "b", "A", "B"}
           [] OTHER                 -> s[i] \in HexChars

\* validate_specimen_id(id, mode) without a custom validator.
validate_specimen_id(id, mode) ==
    /\ startswith(id, ID_PREFIX \o <<":">>)
    /\ Len(id) > Len(ID_PREFIX) + 1
    /\ CASE mode = "strict" -> STRICT_PATTERN_match(id)
         [] mode = "ulid"   -> ULID_PATTERN_match(SubSeq(id, Len(ID_PREFIX) + 2, Len(id)))
         [] mode = "uuid"   -> UUID_PATTERN_match(SubSeq(id, Len(ID_PREFIX) + 2, Len(id)))
         [] mode = "any"    -> TRUE
         [] OTHER           -> FALSE

(***************************************************************************)
(* core/validate.py: validate_specimen.  An issue is <<path, code>>; the   *)
(* result holds the lists of errors and of warnings in the order the code  *)
(* appends them.                                                           *)
(***************************************************************************)
\* validate_specimen, lines 127-143
known_fields ==
    {"@context", "@type", "id", "version", "type", "species", "strain", "stage",
     "created", "batch", "organization", "creator", "custom", "signature", "_meta"}

\* The issues of the checks that fired, in the order of the checks.
Fired(checks) ==
    CHOOSE r \in
        {[k \in 1..Cardinality(on) |->
            checks[CHOOSE i \in on : Cardinality({j \in on : j < i}) = k - 1].issue] :
         on \in {{i \in 1..Len(checks) : checks[i].on}}} : TRUE

\* validate_specimen, lines 146-156: one UNKNOWN_FIELD issue per unknown key, in
\* the dict's iteration order.
unknown_field_issues(data) ==
    CHOOSE r \in
        {Fired([i \in 1..Len(ks) |->
                   [on |-> ks[i] \notin known_fields,
                    issue |-> <<ks[i], "UNKNOWN_FIELD">>]]) :
         ks \in {Keys(data)}} : TRUE

\* One check of validate_specimen.
Check(cond, path, code) == [on |-> cond, issue |-> <<path, code>>]

\* data[k] is present, not None, and not of the kind isinstance asks for.
WrongKind(data, k, kind) == k \in DOMAIN data /\ ~IsNone(data[k]) /\ data[k].t # kind

\* validate_specimen, lines 304-322: the checks of one generation field of a
\* strain object.
generation_checks(strain, gen_field) ==
    <<Check(gen_field \in DOMAIN strain /\ ~IsInt(strain[gen_field]),
            "strain." \o gen_field, "INVALID_TYPE"),
      Check(gen_field \in DOMAIN strain /\ IsInt(strain[gen_field])
                /\ strain[gen_field].v < 0,
            "strain." \o gen_field, "INVALID_VALUE")>>

\* validate_specimen, lines 283-330: the checks of the strain field.
strain_checks(data) ==
    IF "strain" \notin DOMAIN data THEN <<>>
    ELSE IF IsDict(data["strain"])
    THEN <<Check("name" \notin DOMAIN data["strain"].v, "strain.name", "REQUIRED_FIELD"),
           Check("name" \in DOMAIN data["strain"].v
                    /\ (~IsStr(data["strain"].v["name"])
                          \/ strip(data["strain"].v["name"].v) = ""),
                 "strain.name", "INVALID_VALUE")>>
           \o generation_checks(data["strain"].v, "generation")
           \o generation_checks(data["strain"].v, "clonalGeneration")
    ELSE <<Check(~IsStr(data["strain"]), "strain", "INVALID_TYPE")>>

\* validate_specimen, lines 158-374: the field checks, in the order of the code.
field_checks(data) ==
      <<Check("id" \notin DOMAIN data, "id", "REQUIRED_FIELD"),
        Check("id" \in DOMAIN data /\ ~IsStr(data["id"]), "id", "INVALID_TYPE"),
        Check("id" \in DOMAIN data /\ IsStr(data["id"]) /\ ~ID_PATTERN_match(data["id"].v),
              "id", "INVALID_ID"),
        Check("type" \notin DOMAIN data, "type", "REQUIRED_FIELD"),
        Check("type" \in DOMAIN data /\ ~IsStr(data["type"]), "type", "INVALID_TYPE"),
        Check("type" \in DOMAIN data /\ IsStr(data["type"])
                  /\ data["type"].v \notin SpecimenType,
              "type", "INVALID_VALUE"),
        Check("species" \notin DOMAIN data, "species", "REQUIRED_FIELD"),
        Check("species" \in DOMAIN data /\ ~IsStr(data["species"]),
              "species", "INVALID_TYPE"),
        Check("species" \in DOMAIN data /\ IsStr(data["species"])
                  /\ strip(data["species"].v) = "",
              "species", "INVALID_VALUE"),
        Check("version" \in DOMAIN data /\ ~IsStr(data["version"]),
              "version", "INVALID_TYPE"),
        Check("stage" \in DOMAIN data /\ ~IsStr(data["stage"]), "stage", "INVALID_TYPE"),
        Check("stage" \in DOMAIN data /\ IsStr(data["stage"])
                  /\ data["stage"].v \notin GrowthStage,
              "stage", "INVALID_VALUE")>>
      \o strain_checks(data)
      \o <<Check(WrongKind(data, "created", "str"), "created", "INVALID_TYPE"),
           Check(WrongKind(data, "batch", "str"), "batch", "INVALID_TYPE"),
           Check(WrongKind(data, "organization", "str"), "organization", "INVALID_TYPE"),
           Check(WrongKind(data, "creator", "str"), "creator", "INVALID_TYPE"),
           Check(WrongKind(data, "signature", "str"), "signature", "INVALID_TYPE"),
           Check(WrongKind(data, "custom", "obj"), "custom", "INVALID_TYPE")>>

\* A validator that returns at the first field error.
field_errors_mut(data) ==
    CHOOSE r \in {IF es = <<>> THEN <<>> ELSE <<es[1]>> :
                     es \in {Fired(field_checks(data))}} : TRUE

\* validate_specimen, lines 158-374: the errors of the field checks.
field_errors(data) == Fired(field_checks(data))

\* validate_specimen, lines 250-258: the warning for another version.
version_warnings(data) ==
    Fired(<<Check("version" \in DOMAIN data /\ IsStr(data["version"])
                     /\ data["version"].v # WOLS_VERSION,
                  "version", "INVALID_VERSION")>>)

\* A result that warnings make invalid too.
ValidationResult_mut(errors, warnings) ==
    [valid |-> Len(errors) = 0 /\ Len(warnings) = 0, errors |-> errors,
     warnings |-> warnings]

\* validate_specimen, lines 376-380: the ValidationResult returned.
ValidationResult(errors, warnings) ==
    [valid |-> Len(errors) = 0, errors |-> errors, warnings |-> warnings]

\* A validator whose strict mode reports no warnings at all.
validate_specimen_mut(data, strict) ==
    ValidationResult(
        (IF strict THEN unknown_field_issues(data) ELSE <<>>) \o field_errors(data),
        IF strict THEN <<>> ELSE unknown_field_issues(data) \o version_warnings(data))

\* validate_specimen(data, strict=...) of a raw mapping.
validate_specimen(data, strict) ==
    ValidationResult(
        (IF strict THEN unknown_field_issues(data) ELSE <<>>) \o field_errors(data),
        (IF strict THEN <<>> ELSE unknown_field_issues(data)) \o version_warnings(data))

(***************************************************************************)
(* The validator as a state machine: the caller starts from a valid        *)
(* minimal mapping or from the empty mapping, sets and deletes fields, and *)
(* validates the mapping in both modes.                                    *)
(***************************************************************************)
\* The most fields the caller sets or deletes.
MaxEdits == 2

\* An identifier with a suffix of n lowercase letters.
CuidLike(n) == ID_PREFIX \o <<":">> \o Rep("a", n)

\* The identifiers of the model: suffixes of 24, 23, 25, 6 and 0 lowercase
\* characters, an uppercase suffix, a missing and a wrong prefix, and a final
\* newline.
ValIds ==
    <<CuidLike(24), CuidLike(23), CuidLike(25),
      ID_PREFIX \o <<":">> \o <<"a", "b", "c", "1", "2", "3">>, CuidLike(0),
      ID_PREFIX \o <<":">> \o Rep("A", 24), Rep("a", 24),
      <<"o", "t", "h", "e", "r", ":", "a", "b", "c", "1", "2", "3">>, CuidLike(24) \o <<"\n">>>>

\* A strain object with the given name and generation values.
StrainObj(name, generation) ==
    JObj([x \in {"name", "generation"} |-> IF x = "name" THEN name ELSE generation])

\* The values the caller sets a field to: for each key a sequence of values,
\* null and values of the right and of a wrong kind among them.
FieldValues ==
    [id           |-> [i \in 1..Len(ValIds) |-> JStr(ValIds[i])] \o <<JNum(5)>>,
     type         |-> <<JStr("SPAWN"), JStr("BOGUS"), JNum(5)>>,
     species      |-> <<JStr("   "), JNum(5)>>,
     version      |-> <<JNull, JStr(WOLS_VERSION), JStr(V1_0_0), JNum(1)>>,
     stage        |-> <<JNull, JStr("HARVEST"), JStr("BOGUS"), JNum(5)>>,
     strain       |-> <<JNull, JStr("Blue Oyster"), JNum(5),
                        StrainObj(JStr("Blue Oyster"), JNum(3)),
                        StrainObj(JStr("   "), JNum(-1)),
                        JObj([x \in {"clonalGeneration"} |-> JStr("two")])>>,
     created      |-> <<JNull, JStr(<<"2024-03-15", "T", "08:45:00", "Z">>), JNum(5)>>,
     batch        |-> <<JNull, JStr("B-1"), JNum(5)>>,
     organization |-> <<JNull, JStr("WeMush"), JNum(5)>>,
     creator      |-> <<JNull, JStr("ana"), JNum(5)>>,
     signature    |-> <<JNull, JStr("sig"), JNum(5)>>,
     custom       |-> <<JNull, JObj(EmptyDict), JStr("not a dict")>>,
     _meta        |-> <<JObj(SampleMeta)>>,
     color        |-> <<JStr("red")>>,
     weight       |-> <<JNum(5)>>]

\* The mapping the caller starts from: the three required fields, valid.
ValidRecord ==
    [x \in {"id", "type", "species"} |->
        CASE x = "id"      -> JStr(CuidLike(24))
          [] x = "type"    -> JStr("CULTURE")
          [] x = "species" -> JStr("Test")]

\* No result yet, for either value of strict.
NoResult == [s \in BOOLEAN |-> <<>>]

ValInit ==
    /\ LibIdle
    /\ MIGRATION_REGISTRY = <<>>
    /\ input = [typed |-> FALSE, val |-> RawRecord, obj |-> <<>>]
    /\ cm = CmIdle
    /\ mg = MgIdle
    /\ js = JsIdle
    /\ url = UrlIdle
    /\ \E d \in {ValidRecord, EmptyDict} :
          vr = [pc |-> "ready", data |-> d, edits |-> 0, result |-> NoResult]

\* data[k] = v
SetField(k, v) ==
    /\ vr.edits < MaxEdits
    /\ vr' = [vr EXCEPT !.data = Put(vr.data, k, v), !.edits = vr.edits + 1,
                        !.result = NoResult]
    /\ UNCHANGED <<migVars, js, url, libVars>>

\* del data[k]
DelField(k) ==
    /\ vr.edits < MaxEdits
    /\ k \in DOMAIN vr.data
    /\ vr' = [vr EXCEPT !.data = Remove(vr.data, k), !.edits = vr.edits + 1,
                        !.result = NoResult]
    /\ UNCHANGED <<migVars, js, url, libVars>>

\* validate_specimen(data, strict=strict)
ValidateSpecimen(strict) ==
    /\ vr.result[strict] = <<>>
    /\ vr' = [vr EXCEPT !.result[strict] = <<validate_specimen(vr.data, strict)>>]
    /\ UNCHANGED <<migVars, js, url, libVars>>

ValNext ==
    \/ \E k \in DOMAIN FieldValues : \E i \in 1..Len(FieldValues[k]) :
          SetField(k, FieldValues[k][i])
    \/ \E k \in {"id", "type", "species"} : DelField(k)
    \/ \E strict \in BOOLEAN : ValidateSpecimen(strict)

ValSpec == ValInit /\ [][ValNext]_vars

(***************************************************************************)
(* core/create.py: create_specimen.  A string argument the code converts   *)
(* or strips is a tagged value: [enum |-> TRUE] for a SpecimenType or      *)
(* GrowthStage member, [enum |-> FALSE] for a plain string; a strain is a  *)
(* string, held as the name of v, or a Strain object v.                    *)
(***************************************************************************)
EnumMember(v) == [enum |-> TRUE, v |-> v]
PlainStr(v) == [enum |-> FALSE, v |-> v]
StrainStr(s) == [t |-> "str", v |-> StrainOf(s)]
StrainObject(st) == [t |-> "Strain", v |-> st]

\* create_specimen, lines 65-158: the checks that append to errors, in the order
\* of the code.  Both enums derive from str, so isinstance(x, str) holds for a
\* member as for a plain string and the conversion runs for each.
create_checks(a) ==
    <<Check(a.input_type.v \notin SpecimenType, "type", "INVALID_VALUE"),
      Check(a.species = "" \/ strip(a.species) = "", "species", "REQUIRED_FIELD"),
      Check(a.strain # <<>> /\ IsStr(a.strain[1]) /\ strip(a.strain[1].v.name) = "",
            "strain", "INVALID_VALUE"),
      Check(a.stage # <<>> /\ a.stage[1].v \notin GrowthStage, "stage", "INVALID_VALUE"),
      Check(a.batch # <<>> /\ strip(a.batch[1]) = "", "batch", "INVALID_VALUE"),
      Check(a.organization # <<>> /\ strip(a.organization[1]) = "",
            "organization", "INVALID_VALUE"),
      Check(a.creator # <<>> /\ strip(a.creator[1]) = "", "creator", "INVALID_VALUE")>>

\* create_specimen, lines 97-110: the Strain of the strain argument.
create_strain(strain) ==
    IF strain = <<>> THEN <<>>
    ELSE IF IsStr(strain[1]) THEN <<StrainOf(strain[1].v.name)>>
    ELSE <<strain[1].v>>

\* A construction that leaves the prefix out of the identifier.
create_result_mut(a, cuid, now) ==
    [id           |-> cuid,
     version      |-> WOLS_VERSION,
     type         |-> a.input_type.v,
     species      |-> a.species,
     strain       |-> create_strain(a.strain),
     stage        |-> IF a.stage = <<>> THEN <<>> ELSE <<a.stage[1].v>>,
     created      |-> IF a.created # <<>> THEN a.created ELSE <<now>>,
     batch        |-> a.batch,
     organization |-> a.organization,
     creator      |-> a.creator,
     custom       |-> a.custom,
     signature    |-> <<>>]

\* create_specimen, lines 160-175: the Specimen of valid arguments, with the
\* generated identifier and the current time.
create_result(a, cuid, now) ==
    [id           |-> ID_PREFIX \o <<":">> \o cuid,
     version      |-> WOLS_VERSION,
     type         |-> a.input_type.v,
     species      |-> a.species,
     strain       |-> create_strain(a.strain),
     stage        |-> IF a.stage = <<>> THEN <<>> ELSE <<a.stage[1].v>>,
     created      |-> IF a.created # <<>> THEN a.created ELSE <<now>>,
     batch        |-> a.batch,
     organization |-> a.organization,
     creator      |-> a.creator,
     custom       |-> a.custom,
     signature    |-> <<>>]

\* A create_specimen that raises at the first invalid argument.
create_specimen_mut(a, cuid, now) ==
    CHOOSE r \in
        {IF es = <<>>
         THEN [err |-> "", errors |-> <<>>, val |-> <<create_result(a, cuid, now)>>]
         ELSE [err |-> "WolsValidationError", errors |-> <<es[1]>>, val |-> <<>>] :
         es \in {Fired(create_checks(a))}} : TRUE

\* create_specimen(**a), with the identifier and the time the call draws.
create_specimen(a, cuid, now) ==
    CHOOSE r \in
        {IF es = <<>>
         THEN [err |-> "", errors |-> <<>>, val |-> <<create_result(a, cuid, now)>>]
         ELSE [err |-> "WolsValidationError", errors |-> es, val |-> <<>>] :
         es \in {Fired(create_checks(a))}} : TRUE

(***************************************************************************)
(* create_specimen as a state machine: the caller holds the keyword        *)
(* arguments and calls once.                                               *)
(***************************************************************************)
\* The arguments of the model: each of the right kind, valid and invalid.
CreateArgs ==
    [input_type   : {EnumMember("SPAWN"), PlainStr("CULTURE"), PlainStr("BOGUS"),
                     PlainStr("culture")},
     species      : {"Pleurotus ostreatus", "", "   "},
     strain       : {<<>>, <<StrainStr("Blue Oyster")>>, <<StrainStr("   ")>>,
                     <<StrainObject(StrainOf("   "))>>,
                     <<StrainObject(StrainOf("Blue Oyster"))>>,
                     <<StrainObject([StrainOf("Blue Oyster") EXCEPT !.generation = <<-1>>])>>},
     stage        : {<<>>, <<EnumMember("HARVEST")>>, <<PlainStr("BOGUS")>>},
     batch        : {<<>>, <<"B-1">>, <<"   ">>},
     organization : {<<>>, <<"">>},
     creator      : {<<>>, <<"ana">>, <<"   ">>},
     custom       : {<<>>, <<EmptyDict>>},
     created      : {<<>>, <<[day |-> "2024-03-15", sec |-> "08:45:00", us |-> 0,
                              tz |-> <<0>>]>>}]

\* The identifiers _cuid() draws and the readings of the clock, in the model.
SampleCuids == {Rep("a", 24), Rep("b", 24)}
SampleNow == {[day |-> "2026-01-01", sec |-> "00:00:00", us |-> 1, tz |-> <<0>>]}

CreateInit ==
    /\ MIGRATION_REGISTRY = <<>>
    /\ input = [typed |-> FALSE, val |-> RawRecord, obj |-> <<>>]
    /\ cv = CvIdle
    /\ en = EnIdle
    /\ cm = CmIdle
    /\ mg = MgIdle
    /\ js = JsIdle
    /\ url = UrlIdle
    /\ vr = VrIdle
    /\ TYPE_ALIAS_REGISTRY = TypeAliasRegistry0
    /\ ta = TaIdle
    /\ gn = GnIdle
    /\ ps = PsIdle
    /\ \E a \in CreateArgs : cr = [pc |-> "args", args |-> a, result |-> <<>>]

\* create_specimen(**args)
CreateSpecimen ==
    /\ cr.pc = "args"
    /\ \E cuid \in SampleCuids : \E now \in SampleNow :
          cr' = [cr EXCEPT !.pc = "called",
                           !.result = <<create_specimen(cr.args, cuid, now)>>]
    /\ UNCHANGED <<migVars, js, url, vr, TYPE_ALIAS_REGISTRY, ta, gn, ps, cv, en>>

CreateNext == CreateSpecimen

CreateSpec == CreateInit /\ [][CreateNext]_vars

(***************************************************************************)
(* create_specimen followed by validate_specimen: the caller validates the *)
(* Specimen it was given.                                                  *)
(***************************************************************************)
\* validate_specimen(specimen) of a Specimen, line 123: the checks run on
\* specimen.to_dict().
validate_specimen_object(S, strict) == validate_specimen(Specimen_to_dict(S), strict)

\* validate_specimen(create_specimen(...), strict=strict)
ValidateCreated(strict) ==
    /\ cr.pc = "called"
    /\ cr.result[1].err = ""
    /\ vr = VrIdle
    /\ vr' = [pc |-> "validated", strict |-> strict,
              result |-> <<validate_specimen_object(cr.result[1].val[1], strict)>>]
    /\ UNCHANGED <<migVars, js, url, libVars>>

CreateValNext ==
    \/ CreateSpecimen
    \/ \E strict \in BOOLEAN : ValidateCreated(strict)

CreateValSpec == CreateInit /\ [][CreateValNext]_vars

(***************************************************************************)
(* core/parse.py: parse_specimen on any JSON text.  A text is held by what *)
(* json.loads makes of it: form "malformed" for a text that is not JSON,   *)
(* "null", "number", "string" or "array" for a well-formed text whose top  *)
(* level is that kind, and "object" with the mapping it denotes.           *)
(***************************************************************************)
JsonForms == {"malformed", "null", "number", "string", "array", "object"}

\* A text of the given form; data is the mapping of an object.
JsonText(form, data) == [form |-> form, data |-> data]

\* parse_specimen(json_str), lines 31-64: json.loads raises JSONDecodeError on a
\* malformed text, a top level that is not a dict is INVALID_TYPE, and the rest
\* is parse_specimen of the text of an object.
parse_specimen_text(doc) ==
    IF doc.form = "malformed"
    THEN [err |-> "WolsParseError:INVALID_JSON", val |-> <<>>]
    ELSE IF doc.form # "object"
    THEN [err |-> "WolsParseError:INVALID_TYPE", val |-> <<>>]
    ELSE parse_specimen(json_dumps(doc.data))

(***************************************************************************)
(* parse_specimen as a state machine: the caller holds a text (not JSON, a *)
(* JSON value that is no object, or an object it sets and deletes fields   *)
(* of) and parses it.                                                      *)
(***************************************************************************)
\* The most fields the caller sets or deletes in the object of a text.
MaxTextEdits == 2

ParseInit ==
    /\ MIGRATION_REGISTRY = <<>>
    /\ input = [typed |-> FALSE, val |-> RawRecord, obj |-> <<>>]
    /\ cv = CvIdle
    /\ en = EnIdle
    /\ cm = CmIdle
    /\ mg = MgIdle
    /\ js = JsIdle
    /\ url = UrlIdle
    /\ vr = VrIdle
    /\ cr = CrIdle
    /\ TYPE_ALIAS_REGISTRY = TypeAliasRegistry0
    /\ ta = TaIdle
    /\ gn = GnIdle
    /\ \E form \in JsonForms :
          \E d \in (IF form = "object" THEN {ValidRecord, EmptyDict} ELSE {EmptyDict}) :
              ps = [pc |-> "text", doc |-> JsonText(form, d), edits |-> 0,
                    result |-> <<>>]

\* The caller writes "k": v into the object of the text.
SetMember(k, v) ==
    /\ ps.pc = "text"
    /\ ps.doc.form = "object"
    /\ ps.edits < MaxTextEdits
    /\ ps' = [ps EXCEPT !.doc.data = Put(ps.doc.data, k, v), !.edits = ps.edits + 1]
    /\ UNCHANGED <<migVars, js, url, vr, cr, TYPE_ALIAS_REGISTRY, ta, gn, cv, en>>

\* The caller removes the member k from the object of the text.
DelMember(k) ==
    /\ ps.pc = "text"
    /\ ps.doc.form = "object"
    /\ ps.edits < MaxTextEdits
    /\ k \in DOMAIN ps.doc.data
    /\ ps' = [ps EXCEPT !.doc.data = Remove(ps.doc.data, k), !.edits = ps.edits + 1]
    /\ UNCHANGED <<migVars, js, url, vr, cr, TYPE_ALIAS_REGISTRY, ta, gn, cv, en>>

\* parse_specimen(json_str)
ParseText ==
    /\ ps.pc = "text"
    /\ \E r \in {parse_specimen_text(ps.doc)} :
          ps' = [ps EXCEPT !.pc = IF r.err = "" THEN "returned" ELSE "raised",
                           !.result = <<r>>]
    /\ UNCHANGED <<migVars, js, url, vr, cr, TYPE_ALIAS_REGISTRY, ta, gn, cv, en>>

ParseNext ==
    \/ \E k \in DOMAIN FieldValues : \E i \in 1..Len(FieldValues[k]) :
          SetMember(k, FieldValues[k][i])
    \/ \E k \in {"id", "type", "species"} : DelMember(k)
    \/ ParseText

ParseSpec == ParseInit /\ [][ParseNext]_vars

(***************************************************************************)
(* The type-alias registry (type_aliases.py).  TYPE_ALIAS_REGISTRY maps an *)
(* alias in upper case to a SpecimenType member; ta is the caller:         *)
(*   regs    the number of registrations made,                             *)
(*   latest  the type of the most recent registration of each key the      *)
(*           caller registered (a record of the calls, not library state), *)
(*   arg, result   the last resolve_type_alias call and what it returned.  *)
(***************************************************************************)
\* enums.py: the value of each SpecimenType member.
SpecimenTypeValue ==
    [t \in SpecimenType |->
        CASE t = "CULTURE" -> <<"C", "U", "L", "T", "U", "R", "E">>
          [] t = "SPAWN" -> <<"S", "P", "A", "W", "N">>
          [] t = "SUBSTRATE" -> <<"S", "U", "B", "S", "T", "R", "A", "T", "E">>
          [] t = "FRUITING" -> <<"F", "R", "U", "I", "T", "I", "N", "G">>
          [] t = "HARVEST" -> <<"H", "A", "R", "V", "E", "S", "T">>]

\* _CANONICAL_TYPE_VALUES = frozenset(t.value for t in SpecimenType)
CANONICAL_TYPE_VALUES == {SpecimenTypeValue[t] : t \in SpecimenType}

\* A registration that keeps the entry a key already has.
register_type_alias_mut(reg, alias, wols_type) ==
    IF upper(alias) \in DOMAIN reg THEN reg ELSE Put(reg, upper(alias), wols_type)

\* register_type_alias(alias, wols_type): the registry after the call.
register_type_alias(reg, alias, wols_type) == Put(reg, upper(alias), wols_type)

\* A resolver that returns the uppercased input when nothing resolves it.
resolve_type_alias_mut(reg, type_or_alias) ==
    IF upper(type_or_alias) \in CANONICAL_TYPE_VALUES
    THEN upper(type_or_alias)
    ELSE IF upper(type_or_alias) \in DOMAIN reg
    THEN SpecimenTypeValue[reg[upper(type_or_alias)]]
    ELSE upper(type_or_alias)

\* A resolver that looks the alias up before it tests for a canonical value.
resolve_type_alias_first(reg, type_or_alias) ==
    IF upper(type_or_alias) \in DOMAIN reg
    THEN SpecimenTypeValue[reg[upper(type_or_alias)]]
    ELSE IF upper(type_or_alias) \in CANONICAL_TYPE_VALUES
    THEN upper(type_or_alias)
    ELSE type_or_alias

\* resolve_type_alias(type_or_alias), with the registry as it is at the call.
resolve_type_alias(reg, type_or_alias) ==
    IF upper(type_or_alias) \in CANONICAL_TYPE_VALUES
    THEN upper(type_or_alias)
    ELSE IF upper(type_or_alias) \in DOMAIN reg
    THEN SpecimenTypeValue[reg[upper(type_or_alias)]]
    ELSE type_or_alias

\* The most registrations a caller makes.
MaxRegs == 2

\* The aliases a caller registers: a built-in key in three letter cases, a new
\* key in two, and the name of a canonical type in two.
SampleAliases ==
    {<<"l", "c">>, <<"L", "C">>, <<"L", "c">>,
     <<"m", "y", "_", "b", "l", "o", "c", "k">>, <<"M", "Y", "_", "B", "L", "O", "C", "K">>,
     <<"s", "p", "a", "w", "n">>, <<"S", "p", "a", "w", "n">>}

\* The texts a caller resolves: the aliases, canonical values in both cases,
\* built-in aliases in both cases, texts that are neither, and the empty text.
SampleTypeTexts ==
    SampleAliases \cup
    {<<"C", "U", "L", "T", "U", "R", "E">>, <<"c", "u", "l", "t", "u", "r", "e">>,
     <<"H", "a", "r", "v", "e", "s", "t">>,
     <<"s", "u", "b", "s", "t", "r", "a", "t", "e">>, <<"F", "r", "u", "i", "t", "i", "n", "g">>,
     <<"a", "g", "a", "r">>, <<"D", "R", "I", "E", "D">>,
     <<"u", "n", "k", "n", "o", "w", "n">>, <<"U", "n", "k", "n", "o", "w", "n">>,
     <<"L", "C", " ">>, <<>>}

AliasInit ==
    /\ MIGRATION_REGISTRY = <<>>
    /\ input = [typed |-> FALSE, val |-> RawRecord, obj |-> <<>>]
    /\ cv = CvIdle
    /\ en = EnIdle
    /\ cm = CmIdle
    /\ mg = MgIdle
    /\ js = JsIdle
    /\ url = UrlIdle
    /\ vr = VrIdle
    /\ cr = CrIdle
    /\ gn = GnIdle
    /\ ps = PsIdle
    /\ TYPE_ALIAS_REGISTRY = TypeAliasRegistry0
    /\ ta = [pc |-> "ready", regs |-> 0, latest |-> <<>>, arg |-> <<>>, result |-> <<>>]

\* register_type_alias(alias, wols_type)
RegisterTypeAlias(alias, wols_type) ==
    /\ ta.pc \in {"ready", "resolved"}
    /\ ta.regs < MaxRegs
    /\ TYPE_ALIAS_REGISTRY' = register_type_alias(TYPE_ALIAS_REGISTRY, alias, wols_type)
    /\ ta' = [pc |-> "ready", regs |-> ta.regs + 1,
              latest |-> Put(ta.latest, upper(alias), wols_type),
              arg |-> <<>>, result |-> <<>>]
    /\ UNCHANGED <<migVars, js, url, vr, cr, gn, ps, cv, en>>

\* resolve_type_alias(type_or_alias)
ResolveTypeAlias(type_or_alias) ==
    /\ ta.pc \in {"ready", "resolved"}
    /\ ta' = [ta EXCEPT !.pc = "resolved", !.arg = <<type_or_alias>>,
                        !.result = <<resolve_type_alias(TYPE_ALIAS_REGISTRY, type_or_alias)>>]
    /\ UNCHANGED <<migVars, js, url, vr, cr, gn, ps, TYPE_ALIAS_REGISTRY, cv, en>>

AliasNext ==
    \/ \E alias \in SampleAliases, wols_type \in SpecimenType :
          RegisterTypeAlias(alias, wols_type)
    \/ \E type_or_alias \in SampleTypeTexts : ResolveTypeAlias(type_or_alias)

AliasSpec == AliasInit /\ [][AliasNext]_vars

(***************************************************************************)
(* The generation normalizer (generation.py).  A generation string is a    *)
(* sequence of one-character strings; gn is the caller:                    *)
(*   generation, generation_format   the arguments,                        *)
(*   once, twice   what normalize_generation returned for the arguments    *)
(*                 and then for its own result (<<>> before the call).      *)
(***************************************************************************)
\* generation.py, lines 16-26
GenerationFormat == {"PRESERVE", "FILIAL", "NUMERIC"}

\* The characters str.strip() removes, of those the model writes.
Whitespace == {" ", "\t", "\n"}

\* s.strip() of a sequence of characters.
str_strip(s) ==
    IF \A i \in 1..Len(s) : s[i] \in Whitespace
    THEN <<>>
    ELSE SubSeq(s, CHOOSE i \in 1..Len(s) :
                       s[i] \notin Whitespace /\ \A j \in 1..(i - 1) : s[j] \in Whitespace,
                   CHOOSE i \in 1..Len(s) :
                       s[i] \notin Whitespace /\ \A j \in (i + 1)..Len(s) : s[j] \in Whitespace)

\* \d+ matches the whole of s.
IsDigits(s) == Len(s) >= 1 /\ \A i \in 1..Len(s) : s[i] \in Digits

DigitChars == <<"0", "1", "2", "3", "4", "5", "6", "7", "8", "9">>
DigitValue(c) == (CHOOSE k \in 1..Len(DigitChars) : DigitChars[k] = c) - 1

\* int(s) of a sequence of digits.
int(s) ==
    CHOOSE n \in 0..(10 ^ Len(s) - 1) :
        \A i \in 1..Len(s) : (n \div (10 ^ (Len(s) - i))) % 10 = DigitValue(s[i])

\* The number of digits str(n) writes.
NumLen(n) == CHOOSE k \in 1..(n + 1) : n < 10 ^ k /\ (k = 1 \/ n >= 10 ^ (k - 1))

\* str(n) of a non-negative integer.
str(n) == [i \in 1..NumLen(n) |-> DigitChars[((n \div (10 ^ (NumLen(n) - i))) % 10) + 1]]

\* GENERATION_PARSE_PATTERN.match(trimmed): which alternative matches, for a
\* text already stripped and in upper case.
GENERATION_PARSE_PATTERN_match(trimmed) ==
    IF trimmed \in {<<"P">>, <<"P", "1">>} THEN "P"
    ELSE IF Len(trimmed) >= 2 /\ trimmed[1] = "F" /\ IsDigits(Tail(trimmed)) THEN "F"
    ELSE IF Len(trimmed) >= 2 /\ trimmed[1] = "G" /\ IsDigits(Tail(trimmed)) THEN "G"
    ELSE IF IsDigits(trimmed) THEN "N"
    ELSE "none"

\* normalize_generation: numeric_value, for a text the pattern matches.
numeric_value(trimmed) ==
    IF GENERATION_PARSE_PATTERN_match(trimmed) = "N" THEN int(trimmed) ELSE int(Tail(trimmed))

\* A normalizer whose filial form counts one generation more.
normalize_generation_mut(generation, generation_format) ==
    IF upper(str_strip(generation)) \in {<<"P">>, <<"P", "1">>}
    THEN IF generation_format = "NUMERIC" THEN <<"0">> ELSE <<"P">>
    ELSE IF GENERATION_PARSE_PATTERN_match(upper(str_strip(generation))) = "none"
    THEN generation
    ELSE IF generation_format = "PRESERVE" THEN generation
    ELSE IF generation_format = "FILIAL"
    THEN <<"F">> \o str(numeric_value(upper(str_strip(generation))) + 1)
    ELSE str(numeric_value(upper(str_strip(generation))))

\* normalize_generation(generation, generation_format)
normalize_generation(generation, generation_format) ==
    IF upper(str_strip(generation)) \in {<<"P">>, <<"P", "1">>}
    THEN IF generation_format = "NUMERIC" THEN <<"0">> ELSE <<"P">>
    ELSE IF GENERATION_PARSE_PATTERN_match(upper(str_strip(generation))) = "none"
    THEN generation
    ELSE IF generation_format = "PRESERVE" THEN generation
    ELSE IF generation_format = "FILIAL"
    THEN <<"F">> \o str(numeric_value(upper(str_strip(generation))))
    ELSE str(numeric_value(upper(str_strip(generation))))

\* is_valid_generation(generation)
is_valid_generation(generation) ==
    GENERATION_PARSE_PATTERN_match(upper(str_strip(generation))) # "none"

\* The longest run of digits in a caller's text.
MaxDigits == 2

\* The runs of digits a caller writes: with leading zeros, zero itself, and
\* numbers of more than one digit.
SampleDigits ==
    UNION {[1..n -> {"0", "1", "7"}] : n \in 1..MaxDigits}

\* The texts without surrounding whitespace: the parental generation, filial
\* and G generations and bare numbers in both letter cases, and texts the
\* grammar does not accept.
SampleCores ==
    {<<"P">>, <<"p">>, <<"P", "1">>, <<"p", "1">>}
    \cup {pre \o ds : pre \in {<<"F">>, <<"f">>, <<"G">>, <<"g">>, <<>>}, ds \in SampleDigits}
    \cup {<<"F">>, <<"x">>, <<>>, <<"P", "2">>, <<"F", " ", "1">>, <<"-", "1">>}

\* The texts a caller passes: a core with whitespace around it.
SampleGenerations ==
    {lead \o core \o trail :
        lead \in {<<>>, <<" ">>}, core \in SampleCores, trail \in {<<>>, <<" ">>, <<"\n">>}}

GenInit ==
    /\ MIGRATION_REGISTRY = <<>>
    /\ input = [typed |-> FALSE, val |-> RawRecord, obj |-> <<>>]
    /\ cv = CvIdle
    /\ en = EnIdle
    /\ cm = CmIdle
    /\ mg = MgIdle
    /\ js = JsIdle
    /\ url = UrlIdle
    /\ vr = VrIdle
    /\ cr = CrIdle
    /\ TYPE_ALIAS_REGISTRY = TypeAliasRegistry0
    /\ ta = TaIdle
    /\ ps = PsIdle
    /\ \E g \in SampleGenerations, f \in GenerationFormat :
          gn = [pc |-> "start", generation |-> g, generation_format |-> f,
                once |-> <<>>, twice |-> <<>>]

\* r = normalize_generation(generation, generation_format)
NormalizeGeneration ==
    /\ gn.pc = "start"
    /\ gn' = [gn EXCEPT !.pc = "once",
                        !.once = <<normalize_generation(gn.generation, gn.generation_format)>>]
    /\ UNCHANGED <<migVars, js, url, vr, cr, TYPE_ALIAS_REGISTRY, ta, ps, cv, en>>

\* normalize_generation(r, generation_format)
NormalizeAgain ==
    /\ gn.pc = "once"
    /\ gn' = [gn EXCEPT !.pc = "twice",
                        !.twice = <<normalize_generation(gn.once[1], gn.generation_format)>>]
    /\ UNCHANGED <<migVars, js, url, vr, cr, TYPE_ALIAS_REGISTRY, ta, ps, cv, en>>

GenNext == NormalizeGeneration \/ NormalizeAgain

GenSpec == GenInit /\ [][GenNext]_vars

(***************************************************************************)
(* compare_versions as a state machine: the caller holds two version       *)
(* strings and compares them in both orders; ab and ba are what the two    *)
(* calls returned (<<>> before the call).                                  *)
(***************************************************************************)
\* The most segments of a caller's version string.
MaxSegs == 3

\* The segments of the caller's version strings: one digit, two digits, and a
\* leading zero.
SampleSegments == {<<0>>, <<1>>, <<9>>, <<1, 0>>, <<0, 9>>}

\* The version strings the caller compares.
SampleVersions == UNION {[1..n -> SampleSegments] : n \in 1..MaxSegs}

CmpInit ==
    /\ MIGRATION_REGISTRY = <<>>
    /\ input = [typed |-> FALSE, val |-> RawRecord, obj |-> <<>>]
    /\ cm = CmIdle
    /\ mg = MgIdle
    /\ js = JsIdle
    /\ url = UrlIdle
    /\ vr = VrIdle
    /\ cr = CrIdle
    /\ TYPE_ALIAS_REGISTRY = TypeAliasRegistry0
    /\ ta = TaIdle
    /\ gn = GnIdle
    /\ ps = PsIdle
    /\ en = EnIdle
    /\ \E a \in SampleVersions, b \in SampleVersions :
          cv = [pc |-> "args", a |-> a, b |-> b, ab |-> <<>>, ba |-> <<>>]

\* compare_versions(a, b)
CompareVersions ==
    /\ cv.pc = "args"
    /\ cv' = [cv EXCEPT !.pc = "once", !.ab = <<compare_versions(cv.a, cv.b)>>]
    /\ UNCHANGED <<migVars, js, url, vr, cr, TYPE_ALIAS_REGISTRY, ta, gn, ps, en>>

\* compare_versions(b, a)
CompareVersionsSwapped ==
    /\ cv.pc = "once"
    /\ cv' = [cv EXCEPT !.pc = "both", !.ba = <<compare_versions(cv.b, cv.a)>>]
    /\ UNCHANGED <<migVars, js, url, vr, cr, TYPE_ALIAS_REGISTRY, ta, gn, ps, en>>

CmpNext == CompareVersions \/ CompareVersionsSwapped

CmpSpec == CmpInit /\ [][CmpNext]_vars

(***************************************************************************)
(* Field-level encryption (crypto/encrypt.py).  en is the caller: it holds *)
(* a Specimen, a key (valid or not) and the names of the fields to         *)
(* encrypt, and calls encrypt_specimen_fields once.  A ciphertext is the   *)
(* string "encrypted:" followed by the base64 text of a fresh nonce and    *)
(* the AES-GCM output: an opaque string, one of Ciphertexts.               *)
(***************************************************************************)
\* encrypt.py, lines 130-137: valid_fields
valid_fields == {"strain", "stage", "batch", "organization", "creator", "custom"}

\* The strings encrypt_value returns, for the nonces os.urandom draws.
Ciphertexts == {"encrypted:AAAA", "encrypted:BBBB"}

\* encrypt.py, lines 156-164: the fields whose value is replaced in data, those
\* selected that are in specimen.to_dict() with a value that is not None.
encrypted_fields(specimen, fields) ==
    {f \in fields : f \in DOMAIN Specimen_to_dict(specimen)}

\* encrypt.py, lines 166-188: the Specimen returned, with enc[f] the ciphertext
\* of each field of data that was replaced.
encrypted_specimen(specimen, fields, enc) ==
    [id           |-> specimen.id,
     version      |-> specimen.version,
     type         |-> specimen.type,
     species      |-> specimen.species,
     strain       |-> IF "strain" \notin fields THEN specimen.strain ELSE <<>>,
     stage        |-> IF "stage" \notin fields THEN specimen.stage ELSE <<>>,
     created      |-> specimen.created,
     batch        |-> IF "batch" \notin fields THEN specimen.batch
                      ELSE IF "batch" \in DOMAIN enc THEN <<enc["batch"]>> ELSE <<>>,
     organization |-> IF "organization" \notin fields THEN specimen.organization
                      ELSE IF "organization" \in DOMAIN enc THEN <<enc["organization"]>>
                      ELSE <<>>,
     creator      |-> IF "creator" \notin fields THEN specimen.creator
                      ELSE IF "creator" \in DOMAIN enc THEN <<enc["creator"]>> ELSE <<>>,
     custom       |-> IF "custom" \notin fields THEN specimen.custom
                      ELSE IF "custom" \in DOMAIN enc THEN <<enc["custom"]>> ELSE <<>>,
     signature    |-> specimen.signature]

\* encrypt_specimen_fields(specimen, key, fields), with the ciphertexts the
\* call produces.
encrypt_specimen_fields(specimen, key_ok, fields, enc) ==
    IF ~key_ok
    THEN [err |-> "WolsEncryptionError:INVALID_KEY", val |-> <<>>]
    ELSE IF ~(fields \subseteq valid_fields)
    THEN [err |-> "ValueError", val |-> <<>>]
    ELSE [err |-> "", val |-> <<encrypted_specimen(specimen, fields, enc)>>]

\* The Specimens the caller encrypts: every optional field absent or present.
EncSpecimens ==
    {[MinimalSpecimen(SampleId, WOLS_VERSION, "CULTURE", "Pleurotus ostreatus")
        EXCEPT !.strain = o.strain, !.stage = o.stage, !.batch = o.batch,
               !.organization = o.organization, !.creator = o.creator,
               !.custom = o.custom,
               !.created = <<[day |-> "2024-03-15", sec |-> "08:45:00", us |-> 0,
                              tz |-> <<0>>]>>,
               !.signature = <<"sig">>] :
        o \in [strain       : {<<>>, <<StrainOf("Blue Oyster")>>},
               stage        : {<<>>, <<"HARVEST">>},
               batch        : {<<>>, <<"B-1">>},
               organization : {<<>>, <<"WeMush">>},
               creator      : {<<>>, <<"ana">>},
               custom       : {<<>>, <<SampleMeta>>}]}

\* The field lists the caller passes: every selection of encryptable fields,
\* and two with a name that is not encryptable.
EncFieldLists == (SUBSET valid_fields) \cup {{"species"}, {"batch", "id"}}

EncInit ==
    /\ MIGRATION_REGISTRY = <<>>
    /\ input = [typed |-> FALSE, val |-> RawRecord, obj |-> <<>>]
    /\ cm = CmIdle
    /\ mg = MgIdle
    /\ js = JsIdle
    /\ url = UrlIdle
    /\ vr = VrIdle
    /\ cr = CrIdle
    /\ TYPE_ALIAS_REGISTRY = TypeAliasRegistry0
    /\ ta = TaIdle
    /\ gn = GnIdle
    /\ ps = PsIdle
    /\ cv = CvIdle
    /\ \E S \in EncSpecimens, fields \in EncFieldLists, key_ok \in BOOLEAN :
          en = [pc |-> "args", specimen |-> S, fields |-> fields, key_ok |-> key_ok,
                result |-> <<>>, err |-> ""]

\* encrypt_specimen_fields(specimen, key, fields)
EncryptSpecimenFields ==
    /\ en.pc = "args"
    /\ \E enc \in [encrypted_fields(en.specimen, en.fields) -> Ciphertexts] :
          \E r \in {encrypt_specimen_fields(en.specimen, en.key_ok, en.fields, enc)} :
             en' = [en EXCEPT !.pc = IF r.err = "" THEN "returned" ELSE "raised",
                              !.result = r.val, !.err = r.err]
    /\ UNCHANGED <<migVars, js, url, vr, cr, TYPE_ALIAS_REGISTRY, ta, gn, ps, cv>>

EncNext == EncryptSpecimenFields

EncSpec == EncInit /\ [][EncNext]_vars

(***************************************************************************)
(* Properties of the migration engine.                                     *)
(***************************************************************************)
\* The mapping migrate starts from: the caller's mapping, or the projection of
\* the caller's Specimen.
InputDict == IF input.typed THEN Specimen_to_dict(input.obj[1]) ELSE input.val

\* The version the caller's record declares (<<>> when it has no version field).
DeclaredVersion ==
    IF input.typed THEN <<input.obj[1].version>>
    ELSE IF "version" \in DOMAIN input.val THEN <<input.val["version"].v>>
    ELSE <<>>

\* The registry holds the chain 1.0.0 -> 1.1.0 -> 1.2.0 and nothing else, each
\* transform only setting the version field to its target.
ChainRegistered ==
    /\ Len(MIGRATION_REGISTRY) = 2
    /\ \E i, j \in 1..2 :
        /\ MIGRATION_REGISTRY[i] = [from |-> V1_0_0, to |-> V1_1_0, h |-> "setver"]
        /\ MIGRATION_REGISTRY[j] = [from |-> V1_1_0, to |-> V1_2_0, h |-> "setver"]

\* C1: with the edges 1.0.0->1.1.0 and 1.1.0->1.2.0 registered, migrate of a
\* record declaring version 1.0.0 applies both hops in order and returns a
\* mapping whose version is "1.2.0" and whose other fields equal the input's.
C1_MultiStepReachesV1_2_0 ==
    (ChainRegistered /\ DeclaredVersion = <<V1_0_0>> /\ mg.pc = "done")
        => /\ mg.applied = << <<V1_0_0, V1_1_0>>, <<V1_1_0, V1_2_0>> >>
           /\ mg.data[1]["version"] = JStr(V1_2_0)
           /\ DOMAIN mg.data[1] = DOMAIN InputDict
           /\ \A k \in DOMAIN InputDict \ {"version"} : mg.data[1][k] = InputDict[k]

\* C2: can_migrate(record) is true if and only if migrate(record) completes
\* without the no-migration-path error (both calls on the same record and the
\* same registry content).
C2_CanMigrateIffMigrateSucceeds ==
    (cm.pc = "done" /\ mg.pc \in {"done", "raised"})
        => (cm.result = <<TRUE>> <=> mg.pc = "done")

\* C3: can_migrate and migrate terminate: a call that is running eventually
\* returns or raises.
C3_WalksTerminate ==
    /\ [](CmRunning => <>(cm.pc = "done"))
    /\ [](MgRunning => <>(mg.pc \in {"done", "raised"}))

\* The walk is stuck at version v: v is older than the current version and no
\* registered edge leaves it.
Stuck(v) ==
    /\ compare_versions(v, WOLS_VERSION) < 0
    /\ \A i \in 1..Len(MIGRATION_REGISTRY) : MIGRATION_REGISTRY[i].from # v

\* C4: migrate raises the no-migration-path error exactly when the walk reaches a
\* version older than the current one that no registered edge leaves; a record
\* without a version field is walked from 1.0.0; a record at or above the
\* current version never raises.
C4_RaisesIffStuck ==
    [][ /\ (mg.pc # "raised" /\ mg'.pc = "raised")
            <=> (mg.pc = "for" /\ Stuck(mg.current[1]))
        /\ (mg.pc = "raised")' => Stuck(mg.current[1])'
        /\ (mg.pc = "done")' => (compare_versions(mg.current[1], WOLS_VERSION) >= 0)'
        /\ (~MgRunning /\ MgRunning')
            => mg'.current = (IF DeclaredVersion = <<>> THEN <<V1_0_0>> ELSE DeclaredVersion)
        /\ (DeclaredVersion # <<>>
              /\ compare_versions(DeclaredVersion[1], WOLS_VERSION) >= 0)'
            => (mg.pc # "raised")'
      ]_vars

\* C4's case: a record without a version field was walked from 1.0.0 over at
\* least one edge and got stuck.
C4_Witness ==
    /\ mg.pc = "raised"
    /\ DeclaredVersion = <<>>
    /\ Len(mg.applied) >= 1
    /\ mg.applied[1][1] = V1_0_0

(***************************************************************************)
(* Properties of the JSON codec.                                           *)
(***************************************************************************)
\* C5: for every Specimen S built from its field values (the provenance mapping
\* _meta included), parse_specimen(to_json(S)) is a Specimen equal to S on every
\* field given: no step of the round trip fails and each field reads back equal.
C5_JsonRoundTrip ==
    /\ js.pc # "raised"
    /\ js.pc = "parsed" =>
          \A f \in DOMAIN js.kwargs :
              /\ f \in DOMAIN js.parsed[1]
              /\ js.parsed[1][f] = js.specimen[1][f]

(***************************************************************************)
(* Properties of the compact-URL codec.                                    *)
(***************************************************************************)
\* The caller encoded a Specimen with the default base URL and decoded the
\* result (or one of the two calls raised).
RoundTripEnded ==
    /\ url.pc \in {"decoded", "raised"}
    /\ url.specimen # <<>>
    /\ url.base_url = <<>>

\* An id with the "wemush:" prefix removed.
IdSuffix(id) ==
    IF startswith(id, <<"w", "e", "m", "u", "s", "h", ":">>) THEN SubSeq(id, 8, Len(id))
    ELSE id

\* C6: for every Specimen S whose species has a registered code and each of the
\* three schemes, parse_compact_url(to_compact_url(S, scheme)) returns a
\* reference whose id is S.id with the "wemush:" prefix removed.
C6_CompactUrlRoundTripId ==
    (RoundTripEnded /\ SPECIES_NAMES_get(url.specimen[1].species) # <<>>)
        => /\ url.pc = "decoded"
           /\ url.ref[1].id = IdSuffix(url.specimen[1].id)

\* The st parameter of a URL text, <<>> without one.
StParam(text) ==
    IF <<"s", "t">> \in DOMAIN parse_qs_first(urlparse(text).query)
    THEN <<parse_qs_first(urlparse(text).query)[<<"s", "t">>]>>
    ELSE <<>>

\* An id without a URL delimiter: the whole id suffix is the last path segment
\* of its URL.
PlainId(id) == \A i \in 1..Len(id) : id[i] \notin {"/", "?", "#"}

\* C7: the stage-code table covers all seven growth stages both ways: encoding
\* a Specimen with stage G (include_stage true) emits an st code, decoding that
\* URL yields stage G (for an id that holds no URL delimiter), and the codes
\* INC, PRI and SEN decode to INCUBATION, PRIMORDIA and SENESCENCE.
C7_StageCodesCoverAllStages ==
    /\ (/\ url.pc \in {"encoded", "decoded"}
        /\ url.specimen # <<>>
        /\ PlainId(url.specimen[1].id)
        /\ url.include_stage
        /\ url.specimen[1].stage # <<>>)
          => /\ StParam(url.text[1]) # <<>>
             /\ url.pc = "decoded" => url.ref[1].stage = url.specimen[1].stage
    /\ (url.pc = "decoded" /\ url.specimen = <<>>)
          => /\ url.text[1] = StageUrl(<<"I", "N", "C">>)
                  => url.ref[1].stage = <<"INCUBATION">>
             /\ url.text[1] = StageUrl(<<"P", "R", "I">>)
                  => url.ref[1].stage = <<"PRIMORDIA">>
             /\ url.text[1] = StageUrl(<<"S", "E", "N">>)
                  => url.ref[1].stage = <<"SENESCENCE">>

(***************************************************************************)
(* Properties of the validator.                                            *)
(***************************************************************************)
\* The optional keys of a specimen mapping.
OptionalKeys ==
    {"version", "stage", "strain", "created", "batch", "organization", "creator",
     "signature", "custom"}

\* The known-field allow-list.
AllowList ==
    {"@context", "@type", "id", "version", "type", "species", "strain", "stage",
     "created", "batch", "organization", "creator", "custom", "signature", "_meta"}

\* The validator returned for the caller's mapping with the given strict flag.
Validated(strict) == vr.pc = "ready" /\ vr.result[strict] # <<>>

\* The issues of a list, as a set.
IssueSet(issues) == {issues[i] : i \in 1..Len(issues)}

\* C8: in validate_specimen on a raw mapping a present-but-null optional field is
\* equivalent to an absent one: with an optional key set to null the result
\* (errors and warnings) is that of the same mapping without the key.
C8_NullOptionalEqualsAbsent ==
    \A strict \in BOOLEAN :
        Validated(strict) =>
            \A k \in OptionalKeys :
                (k \in DOMAIN vr.data /\ IsNone(vr.data[k]))
                    => vr.result[strict][1] = validate_specimen(Remove(vr.data, k), strict)

\* C9: validate_specimen reports no INVALID_ID error for a string id exactly when
\* validate_specimen_id accepts that id in the default strict mode.
C9_IdGrammarAgrees ==
    \A strict \in BOOLEAN :
        (Validated(strict) /\ "id" \in DOMAIN vr.data /\ IsStr(vr.data["id"]))
            => ((<<"id", "INVALID_ID">> \notin IssueSet(vr.result[strict][1].errors))
                  <=> validate_specimen_id(vr.data["id"].v, "strict"))

\* The UNKNOWN_FIELD issues of the caller's mapping: one per key outside the
\* allow-list.
UnknownIssues == {<<k, "UNKNOWN_FIELD">> : k \in (DOMAIN vr.data) \ AllowList}

\* C10: the strict flag is the validator's only branch point: both modes report
\* the same (path, code) issues in errors and warnings taken together, and differ
\* only in that each UNKNOWN_FIELD issue is an error under strict and a warning
\* otherwise.
C10_StrictOnlyMovesUnknownFields ==
    (Validated(TRUE) /\ Validated(FALSE)) =>
        /\ IssueSet(vr.result[TRUE][1].errors) \cup IssueSet(vr.result[TRUE][1].warnings)
             = IssueSet(vr.result[FALSE][1].errors)
                 \cup IssueSet(vr.result[FALSE][1].warnings)
        /\ IssueSet(vr.result[TRUE][1].errors)
             = IssueSet(vr.result[FALSE][1].errors) \cup UnknownIssues
        /\ IssueSet(vr.result[FALSE][1].warnings)
             = IssueSet(vr.result[TRUE][1].warnings) \cup UnknownIssues
        /\ IssueSet(vr.result[FALSE][1].errors) \cap UnknownIssues = {}
        /\ IssueSet(vr.result[TRUE][1].warnings) \cap UnknownIssues = {}
        /\ Len(vr.result[TRUE][1].errors)
             = Len(vr.result[FALSE][1].errors) + Cardinality(UnknownIssues)
        /\ Len(vr.result[FALSE][1].warnings)
             = Len(vr.result[TRUE][1].warnings) + Cardinality(UnknownIssues)

\* C10's case: a mapping with an unknown field, another version and a defective
\* field was validated in both modes.
C10_Witness ==
    /\ Validated(TRUE)
    /\ Validated(FALSE)
    /\ UnknownIssues # {}
    /\ \/ <<"version", "INVALID_VERSION">> \in IssueSet(vr.result[TRUE][1].warnings)
       \/ vr.result[FALSE][1].errors # <<>>

\* The fields validate_specimen checks, and the paths of the errors of each.
CheckedFields ==
    {"id", "type", "species", "version", "stage", "strain", "created", "batch",
     "organization", "creator", "signature", "custom"}

PathsOf(f) ==
    IF f = "strain"
    THEN {"strain", "strain.name", "strain.generation", "strain.clonalGeneration"}
    ELSE {f}

\* The mapping with the keys in ks only.
Restrict(d, ks) == [k \in (DOMAIN d) \cap ks |-> d[k]]

\* The errors of a result at the paths of field f, in order.
ErrorsAt(result, f) ==
    Compact(result.errors,
            {i \in 1..Len(result.errors) : result.errors[i][1] \in PathsOf(f)})

\* C11: validate_specimen never short-circuits: the checks of each field run
\* whatever the outcome of the others, so the errors a call reports at a field's
\* path are those of the mapping holding that field alone, and for
\* {type: "BOGUS"} the errors are exactly REQUIRED_FIELD at id, REQUIRED_FIELD at
\* species and INVALID_VALUE at type.
C11_NoShortCircuit ==
    \A strict \in BOOLEAN :
        Validated(strict) =>
            /\ \A f \in CheckedFields :
                  ErrorsAt(vr.result[strict][1], f)
                    = ErrorsAt(validate_specimen(Restrict(vr.data, {f}), strict), f)
            /\ (/\ DOMAIN vr.data = {"type"}
                /\ IsStr(vr.data["type"])
                /\ vr.data["type"].v = "BOGUS")
                  => /\ IssueSet(vr.result[strict][1].errors)
                          = {<<"id", "REQUIRED_FIELD">>, <<"species", "REQUIRED_FIELD">>,
                             <<"type", "INVALID_VALUE">>}
                     /\ Len(vr.result[strict][1].errors) = 3

\* C11's case: one call reported errors at the paths of three fields.
C11_Witness ==
    \E strict \in BOOLEAN :
        /\ Validated(strict)
        /\ Cardinality({f \in CheckedFields : ErrorsAt(vr.result[strict][1], f) # <<>>}) >= 3

\* C12: every ValidationResult of validate_specimen has valid true exactly when
\* its errors list is empty; warnings never make valid false.
C12_ValidIffNoErrors ==
    \A strict \in BOOLEAN :
        Validated(strict) =>
            (vr.result[strict][1].valid <=> vr.result[strict][1].errors = <<>>)

\* C12's case: a result with warnings (an unknown field and another version) and
\* no error is valid.
C12_Witness ==
    /\ Validated(FALSE)
    /\ vr.result[FALSE][1].valid
    /\ <<"version", "INVALID_VERSION">> \in IssueSet(vr.result[FALSE][1].warnings)
    /\ \E k \in DOMAIN vr.data : <<k, "UNKNOWN_FIELD">> \in IssueSet(vr.result[FALSE][1].warnings)

(***************************************************************************)
(* Properties of create_specimen.                                          *)
(***************************************************************************)
\* The arguments the claim calls invalid, by the path of their error.
InvalidArgs(a) ==
    (IF a.input_type.v \notin SpecimenType THEN {"type"} ELSE {})
    \cup (IF a.species \in BlankStrings THEN {"species"} ELSE {})
    \cup (IF a.strain # <<>> /\ a.strain[1].t = "str"
                /\ a.strain[1].v.name \in BlankStrings
          THEN {"strain"} ELSE {})
    \cup (IF a.stage # <<>> /\ a.stage[1].v \notin GrowthStage THEN {"stage"} ELSE {})
    \cup {f \in {"batch", "organization", "creator"} :
            a[f] # <<>> /\ a[f][1] \in BlankStrings}

\* C13: create_specimen is not fail-fast: with invalid arguments it raises one
\* WolsValidationError whose errors list holds one entry per invalid field, and
\* it returns a Specimen only when no field is invalid.
C13_CreateCollectsAllErrors ==
    cr.pc = "called" =>
        /\ (cr.result[1].err = "") <=> (InvalidArgs(cr.args) = {})
        /\ cr.result[1].err # "" =>
              /\ cr.result[1].err = "WolsValidationError"
              /\ cr.result[1].val = <<>>
              /\ {cr.result[1].errors[i][1] : i \in 1..Len(cr.result[1].errors)}
                    = InvalidArgs(cr.args)
              /\ Len(cr.result[1].errors) = Cardinality(InvalidArgs(cr.args))
        /\ cr.result[1].err = "" =>
              /\ cr.result[1].val # <<>>
              /\ cr.result[1].errors = <<>>

\* C13's case: a call with several invalid arguments raised.
C13_Witness ==
    /\ cr.pc = "called"
    /\ Cardinality(InvalidArgs(cr.args)) >= 3
    /\ cr.result[1].err = "WolsValidationError"

(***************************************************************************)
(* Properties of parse_specimen.                                           *)
(***************************************************************************)
\* parse_specimen ended on the caller's text.
Parsed == ps.pc \in {"returned", "raised"}

\* C14: parse_specimen classifies failures in a fixed precedence: a malformed
\* text raises INVALID_JSON; well-formed JSON whose top level is not an object
\* raises INVALID_TYPE; an object missing any of id, type or species raises
\* REQUIRED_FIELD; field conversion is attempted only after these three checks
\* pass, and its failures raise PARSE_ERROR.
C14_ParseFailurePrecedence ==
    Parsed =>
        /\ ps.doc.form = "malformed"
              => ps.result[1].err = "WolsParseError:INVALID_JSON"
        /\ ps.doc.form \in {"null", "number", "string", "array"}
              => ps.result[1].err = "WolsParseError:INVALID_TYPE"
        /\ (ps.doc.form = "object"
              /\ ~({"id", "type", "species"} \subseteq DOMAIN ps.doc.data))
              => ps.result[1].err = "WolsParseError:REQUIRED_FIELD"
        /\ (ps.doc.form = "object"
              /\ {"id", "type", "species"} \subseteq DOMAIN ps.doc.data
              /\ ps.pc = "raised")
              => ps.result[1].err = "WolsParseError:PARSE_ERROR"
        /\ ps.result[1].err = "WolsParseError:PARSE_ERROR"
              => /\ ps.doc.form = "object"
                 /\ {"id", "type", "species"} \subseteq DOMAIN ps.doc.data

(***************************************************************************)
(* Properties of the compact-URL codec: failures.                          *)
(***************************************************************************)
\* The caller's to_compact_url call has ended.
EncodeEnded == url.pc # "idle" /\ url.pc # "start" /\ url.specimen # <<>>

\* The species has a two-letter code in the species-code table.
HasSpeciesCode(species) ==
    \E i \in 1..Len(SPECIES_CODES) :
        SPECIES_CODES[i][2] = species /\ Len(SPECIES_CODES[i][1]) = 2

\* C15: to_compact_url succeeds exactly when the Specimen's species has a
\* registered two-letter code: for another species it raises a
\* WolsValidationError with an error at path species and returns no URL, under
\* every scheme and whatever include_stage and base_url are.
C15_EncodeIffSpeciesCode ==
    EncodeEnded =>
        IF HasSpeciesCode(url.specimen[1].species)
        THEN url.text # <<>>
        ELSE /\ url.pc = "raised"
             /\ url.err = "WolsValidationError:species"
             /\ url.text = <<>>

\* C15's case: the encoding of a Specimen of a species without a code, with
\* the https scheme and a base URL, raised.
C15_Witness ==
    /\ EncodeEnded
    /\ ~HasSpeciesCode(url.specimen[1].species)
    /\ url.scheme = HTTPS
    /\ url.base_url # <<>>
    /\ url.pc = "raised"

\* The caller's parse_compact_url call has ended.
DecodeEnded == url.pc \in {"decoded", "raised"} /\ url.text # <<>>

\* The scheme of a URL text, in lower case.
TextScheme(u) == split_scheme(u).scheme

\* The schemes parse_compact_url accepts.
AcceptedSchemes ==
    {<<"w", "e", "m", "u", "s", "h">>,
     <<"w", "e", "b", "+", "w", "e", "m", "u", "s", "h">>,
     <<"h", "t", "t", "p", "s">>}

\* The non-empty segments of a URL text: of the path alone for https, of the
\* authority followed by the path for the other schemes.
Segments(u) ==
    SplitNonEmpty(IF urlparse(u).scheme = <<"h", "t", "t", "p", "s">>
                  THEN urlparse(u).path
                  ELSE urlparse(u).netloc \o urlparse(u).path, "/")

\* The positions of the segments that follow a 'v1' segment no 'v1' precedes.
AfterFirstV1(segs) ==
    {k + 1 : k \in {k \in 1..(Len(segs) - 1) :
                       /\ segs[k] = <<"v", "1">>
                       /\ \A j \in 1..(k - 1) : segs[j] # <<"v", "1">>}}

\* What C16 says of the decoding of the text u.
SchemeThenPath(u) ==
    IF TextScheme(u) \notin AcceptedSchemes
    THEN url.pc = "raised" /\ url.err = "WolsParseError:INVALID_SCHEME"
    ELSE IF AfterFirstV1(Segments(u)) = {}
    THEN url.pc = "raised" /\ url.err = "WolsParseError:INVALID_PATH"
    ELSE /\ url.pc = "decoded"
         /\ \A k \in AfterFirstV1(Segments(u)) : url.ref[1].id = Segments(u)[k]

\* C16 as stated: parse_compact_url rejects every URL whose scheme is not wemush,
\* web+wemush or https with INVALID_SCHEME, rejects a URL with an accepted
\* scheme with INVALID_PATH when its non-empty segments hold no 'v1' segment or
\* no segment after it, and otherwise returns the segment following 'v1' as id.
C16_SchemeThenPath_Stated == DecodeEnded => SchemeThenPath(url.text[1])

\* C16, amended: the same for every URL that urlparse accepts; a URL urlparse
\* rejects (an authority with an unmatched square bracket) is rejected with
\* INVALID_URL whatever its scheme and path.
C16_SchemeThenPath ==
    DecodeEnded =>
        IF urlparse_raises(url.text[1])
        THEN url.pc = "raised" /\ url.err = "WolsParseError:INVALID_URL"
        ELSE SchemeThenPath(url.text[1])

\* C16's case: a URL with a custom scheme, an authority before 'v1' and a
\* segment after the id was decoded.
C16_Witness ==
    /\ DecodeEnded
    /\ url.pc = "decoded"
    /\ TextScheme(url.text[1]) = <<"w", "e", "m", "u", "s", "h">>
    /\ Len(Segments(url.text[1])) = 4
    /\ url.ref[1].id = Segments(url.text[1])[3]

\* The stage codes of the model's st values that name no growth stage.
UnknownStageCodes == {<<"X", "X", "X">>, <<"H", "A", "R", "V", "E", "S", "T">>, <<"7">>}

\* C17: parse_compact_url never fails because of the st parameter: an st value
\* that is not a known stage code leaves stage null, while id, species_code and
\* params (which still holds the raw st value) are produced as for the same URL
\* with a known code.
C17_UnknownStageCodeDropped ==
    \A code \in UnknownStageCodes :
        (DecodeEnded /\ url.text[1] = StageUrl(code)) =>
            /\ url.pc = "decoded"
            /\ url.ref[1].stage = <<>>
            /\ url.ref[1].id = parse_compact_url(StageUrl(<<"H", "A", "R">>)).val[1].id
            /\ url.ref[1].species_code
                 = parse_compact_url(StageUrl(<<"H", "A", "R">>)).val[1].species_code
            /\ DOMAIN url.ref[1].params
                 = DOMAIN parse_compact_url(StageUrl(<<"H", "A", "R">>)).val[1].params
            /\ url.ref[1].params[<<"s", "t">>] = code

\* C17's case: a URL with st=XXX was decoded.
C17_Witness ==
    /\ DecodeEnded
    /\ url.text[1] = StageUrl(<<"X", "X", "X">>)
    /\ url.pc = "decoded"
    /\ url.ref[1].stage = <<>>

(***************************************************************************)
(* Properties of the type-alias registry.                                  *)
(***************************************************************************)
\* The caller's resolve_type_alias call has returned.
Resolved == ta.pc = "resolved"

\* The alias keys: the built-in ones and those the caller registered.
BuiltinKeys == {BUILTIN_TYPE_ALIASES[i][1] : i \in 1..Len(BUILTIN_TYPE_ALIASES)}
AliasKeys == BuiltinKeys \cup DOMAIN ta.latest

\* The type of an alias key: that of the caller's most recent registration of
\* the key, or else that of the built-in entry.
AliasType(key) ==
    IF key \in DOMAIN ta.latest THEN ta.latest[key]
    ELSE BUILTIN_TYPE_ALIASES[CHOOSE i \in 1..Len(BUILTIN_TYPE_ALIASES) :
                                 BUILTIN_TYPE_ALIASES[i][1] = key][2]

\* C18: resolve_type_alias never raises and returns a canonical type value or
\* its input unchanged: an input whose uppercase form is a canonical type yields
\* that value, an input whose uppercase form is a registered alias yields the
\* alias's type value, and any other input is returned character for character.
C18_ResolveTotal ==
    Resolved =>
        /\ ta.result # <<>>
        /\ ta.result[1] \in CANONICAL_TYPE_VALUES \/ ta.result[1] = ta.arg[1]
        /\ IF upper(ta.arg[1]) \in CANONICAL_TYPE_VALUES
           THEN ta.result[1] = upper(ta.arg[1])
           ELSE IF upper(ta.arg[1]) \in AliasKeys
           THEN ta.result[1] = SpecimenTypeValue[AliasType(upper(ta.arg[1]))]
           ELSE ta.result[1] = ta.arg[1]

\* C18's case: a text in mixed case that is neither a type nor an alias was
\* resolved after a registration.
C18_Witness ==
    /\ Resolved
    /\ ta.regs > 0
    /\ ta.arg[1] = <<"U", "n", "k", "n", "o", "w", "n">>
    /\ ta.result[1] = ta.arg[1]

\* A registration of alias leaves the resolution of every text with another
\* key as it was.
OtherKeysKept ==
    \A alias \in SampleAliases, wols_type \in SpecimenType :
        RegisterTypeAlias(alias, wols_type) =>
            \A x \in SampleTypeTexts :
                upper(x) # upper(alias) =>
                    resolve_type_alias(TYPE_ALIAS_REGISTRY', x)
                      = resolve_type_alias(TYPE_ALIAS_REGISTRY, x)

\* C19 as stated: register_type_alias is a case-insensitive upsert: after any
\* sequence of registrations, resolving an alias in any letter case yields the
\* type of the most recent registration of its uppercased key, built-in entries
\* included, and a registration changes the resolution of no other key.
C19_LatestRegistrationWins_Stated ==
    /\ [](Resolved /\ upper(ta.arg[1]) \in DOMAIN ta.latest
            => ta.result[1] = SpecimenTypeValue[ta.latest[upper(ta.arg[1])]])
    /\ [][OtherKeysKept]_vars

\* C19, amended: the same for the alias keys that are not the name of a
\* canonical type; a text whose uppercase form is a canonical type resolves to
\* that type whatever was registered under it.
C19_LatestRegistrationWins ==
    /\ [](Resolved /\ upper(ta.arg[1]) \in DOMAIN ta.latest
            => ta.result[1] =
                 IF upper(ta.arg[1]) \in CANONICAL_TYPE_VALUES
                 THEN upper(ta.arg[1])
                 ELSE SpecimenTypeValue[ta.latest[upper(ta.arg[1])]])
    /\ [][OtherKeysKept]_vars

\* C19's case: a built-in alias registered twice, in two letter cases and with
\* two types, was resolved in a third letter case to the second type.
C19_Witness ==
    /\ Resolved
    /\ ta.regs = 2
    /\ DOMAIN ta.latest = {<<"L", "C">>}
    /\ ta.latest[<<"L", "C">>] = "HARVEST"
    /\ ta.arg[1] = <<"L", "c">>
    /\ ta.result[1] = <<"H", "A", "R", "V", "E", "S", "T">>

(***************************************************************************)
(* Properties of the generation normalizer.                                *)
(***************************************************************************)
\* The caller has normalized the text and then the result.
NormalizedTwice == gn.pc = "twice"

\* C20: normalize_generation is idempotent: for every valid generation string
\* x (P, P1, F<n>, G<n> or a bare non-negative integer, in any letter case, with
\* surrounding whitespace) and every format F, normalize(normalize(x, F), F)
\* equals normalize(x, F).
C20_NormalizeIdempotent ==
    (NormalizedTwice /\ is_valid_generation(gn.generation)) =>
        gn.twice[1] = gn.once[1]

\* C20's case: a G generation in lower case with a leading zero and whitespace
\* on both sides was normalized twice to the filial form.
C20_Witness ==
    /\ NormalizedTwice
    /\ gn.generation = <<" ", "g", "0", "7", "\n">>
    /\ gn.generation_format = "FILIAL"
    /\ gn.once[1] = <<"F", "7">>
    /\ gn.twice[1] = <<"F", "7">>

\* The caller's first normalize_generation call has returned.
NormalizedOnce == gn.pc \in {"once", "twice"}

\* C21: normalize_generation(x, PRESERVE) returns x verbatim for every input
\* string x, valid or not.
C21_PreserveVerbatim ==
    (NormalizedOnce /\ gn.generation_format = "PRESERVE") =>
        gn.once[1] = gn.generation

(***************************************************************************)
(* Properties of the type-alias registry: canonical names.                 *)
(***************************************************************************)
\* The canonical type whose name the text is, in any letter case.
CanonicalOf(x) == {t \in SpecimenType : SpecimenTypeValue[t] = upper(x)}

\* C28: after any sequence of register_type_alias calls, including those whose
\* uppercased alias is a canonical type name with another target type,
\* resolve_type_alias maps each canonical type name, in any letter case, to
\* itself: no registration redirects a canonical name.
C28_CanonicalNeverRedirected ==
    \A t \in SpecimenType :
        (Resolved /\ t \in CanonicalOf(ta.arg[1])) =>
            ta.result[1] = SpecimenTypeValue[t]

\* C28's case: SPAWN was registered as an alias of another type and 'spawn'
\* was then resolved.
C28_Witness ==
    /\ Resolved
    /\ <<"S", "P", "A", "W", "N">> \in DOMAIN TYPE_ALIAS_REGISTRY
    /\ TYPE_ALIAS_REGISTRY[<<"S", "P", "A", "W", "N">>] = "CULTURE"
    /\ ta.arg[1] = <<"s", "p", "a", "w", "n">>
    /\ ta.result[1] = <<"S", "P", "A", "W", "N">>

(***************************************************************************)
(* Properties of parse_specimen: what escapes.                             *)
(***************************************************************************)
\* The codes a WolsParseError of parse_specimen carries.
ParseErrorCodes ==
    {"WolsParseError:INVALID_JSON", "WolsParseError:INVALID_TYPE",
     "WolsParseError:REQUIRED_FIELD", "WolsParseError:PARSE_ERROR"}

\* C24: every failure of parse_specimen, on any input string, is a
\* WolsParseError with one of the codes INVALID_JSON, INVALID_TYPE,
\* REQUIRED_FIELD or PARSE_ERROR; no other exception escapes, whatever the JSON
\* kind of each field's value.
C24_OnlyParseErrorsEscape ==
    ps.pc = "raised" => ps.result[1].err \in ParseErrorCodes

(***************************************************************************)
(* Properties of the compact-URL codec: caller-supplied base URLs.         *)
(***************************************************************************)
\* The caller encoded a Specimen of a species with a code under the https
\* scheme with a base URL of its own and decoded the result; the id suffix is
\* not empty and holds no URL delimiter.
HttpsBaseRoundTripEnded ==
    /\ url.pc \in {"decoded", "raised"}
    /\ url.specimen # <<>>
    /\ url.scheme = HTTPS
    /\ url.base_url # <<>>
    /\ HasSpeciesCode(url.specimen[1].species)
    /\ IdSuffix(url.specimen[1].id) # <<>>
    /\ PlainId(url.specimen[1].id)

\* C30: for the https scheme with any caller-supplied base URL, whatever path
\* segments the base holds and with or without a trailing slash,
\* parse_compact_url(to_compact_url(S, scheme=https, base_url=B)).id equals
\* S's id suffix.
C30_HttpsBaseRoundTripId ==
    HttpsBaseRoundTripEnded =>
        /\ url.pc = "decoded"
        /\ url.ref[1].id = IdSuffix(url.specimen[1].id)

(***************************************************************************)
(* Properties of the migration engine: edge selection.                     *)
(***************************************************************************)
\* The target versions of the registered edges that leave the version v.
TargetsFrom(v) ==
    {MIGRATION_REGISTRY[i].to :
        i \in {i \in 1..Len(MIGRATION_REGISTRY) : MIGRATION_REGISTRY[i].from = v}}

\* C23: when several registered edges share the same from-version, migrate
\* takes the edge with the lowest target version in version order (ascending by
\* numeric segment comparison, as compare_versions orders them), whatever the
\* order of registration.
C23_LowestTargetVersionFirst ==
    [][(MigrateFor /\ mg'.pc = "while") =>
          \A t \in TargetsFrom(mg.current[1]) :
              compare_versions(mg'.current[1], t) <= 0]_vars

(***************************************************************************)
(* Properties of compare_versions.                                         *)
(***************************************************************************)
\* The caller has compared its two version strings in both orders.
ComparedBoth == cv.pc = "both"

\* The integer a segment of digits denotes, by the weight of each digit.
SegValue(seg) ==
    IF Len(seg) = 1 THEN seg[1]
    ELSE IF Len(seg) = 2 THEN 10 * seg[1] + seg[2]
    ELSE 100 * seg[1] + 10 * seg[2] + seg[3]

\* The first position at which the integer tuples of a and b differ, 0 when
\* one is a prefix of the other.
FirstDiff(a, b) ==
    IF \E i \in 1..Len(a) : i <= Len(b) /\ SegValue(a[i]) # SegValue(b[i])
    THEN CHOOSE i \in 1..Len(a) :
            /\ i <= Len(b)
            /\ SegValue(a[i]) # SegValue(b[i])
            /\ \A j \in 1..(i - 1) : SegValue(a[j]) = SegValue(b[j])
    ELSE 0

\* The integer tuples of a and b are equal.
SameTuple(a, b) == Len(a) = Len(b) /\ FirstDiff(a, b) = 0

\* C22: compare_versions compares dot-separated versions segment by segment
\* as integers (so 1.9.0 is less than 1.10.0), returns only -1, 0 or 1, returns
\* 0 exactly when the two integer tuples are equal, and is antisymmetric:
\* compare_versions(a, b) = -compare_versions(b, a).
C22_CompareVersionsOrder ==
    ComparedBoth =>
        /\ cv.ab[1] \in {-1, 0, 1}
        /\ cv.ab[1] = 0 <=> SameTuple(cv.a, cv.b)
        /\ cv.ab[1] = 0 - cv.ba[1]
        /\ FirstDiff(cv.a, cv.b) # 0 =>
              cv.ab[1] = IF SegValue(cv.a[FirstDiff(cv.a, cv.b)])
                              < SegValue(cv.b[FirstDiff(cv.a, cv.b)])
                         THEN -1 ELSE 1
        /\ (FirstDiff(cv.a, cv.b) = 0 /\ Len(cv.a) < Len(cv.b)) => cv.ab[1] = -1

\* C22's case: 1.9.0 was compared with 1.10.0 in both orders.
C22_Witness ==
    /\ ComparedBoth
    /\ cv.a = << <<1>>, <<9>>, <<0>> >>
    /\ cv.b = << <<1>>, <<1, 0>>, <<0>> >>
    /\ cv.ab[1] = -1
    /\ cv.ba[1] = 1

(***************************************************************************)
(* Properties of create_specimen followed by validate_specimen.            *)
(***************************************************************************)
\* The caller validated the Specimen create_specimen returned.
CreatedValidated == vr.pc = "validated"

\* The result is valid and has neither errors nor warnings.
Clean(r) == r.valid /\ r.errors = <<>> /\ r.warnings = <<>>

StrainArgumentValid(a) ==
    \/ a.strain = <<>>
    \/ IsStr(a.strain[1])
    \/ /\ a.strain[1].v.name \notin BlankStrings
       /\ a.strain[1].v.generation = <<>> \/ a.strain[1].v.generation[1] >= 0
       /\ a.strain[1].v.clonal_generation = <<>>
            \/ a.strain[1].v.clonal_generation[1] >= 0

Encrypted == en.pc = "returned"

\* C25: encrypt_specimen_fields returns a new Specimen in which every selected
\* field (among strain, stage, batch, organization, creator, custom) that was
\* non-null in the input is replaced by an opaque ciphertext string, and every
\* field that was not selected, as well as id, version, type, species, created
\* and signature, equals the input's value.
C25_SelectedFieldsBecomeCiphertext ==
    Encrypted =>
        /\ \A f \in valid_fields :
              IF f \in en.fields
              THEN en.specimen[f] # <<>> =>
                      /\ en.result[1][f] # <<>>
                      /\ en.result[1][f][1] \in Ciphertexts
              ELSE en.result[1][f] = en.specimen[f]
        /\ \A f \in {"id", "version", "type", "species", "created", "signature"} :
              en.result[1][f] = en.specimen[f]

(***************************************************************************)
(* Properties of migrate and the caller's record.                          *)
(***************************************************************************)
\* C29: migrate never modifies the caller's input: no step of migrate, up to its
\* return or its no-migration-path error, changes the keys or the values of the
\* record, also when the transforms change their argument in place; and for a
\* record at or above the current version migrate ends without a transform.
C29_MigrateKeepsInput ==
    [][/\ (MigrateCall \/ MigrateWhile \/ MigrateFor) => input' = input
       /\ (MigrateCall /\ ~loop_test(migrate_version(migrate_data(input)))) =>
              mg'.pc = "done" /\ mg'.applied = <<>>]_vars

(***************************************************************************)
(* Properties of the migration engine with concurrent callers.             *)
(***************************************************************************)
\* The contents the registry had at some time during the call w.
Snapshots(w) == {w.seen[i] : i \in 1..Len(w.seen)} \cup {MIGRATION_REGISTRY}

\* The walk of migrate so far is the walk migrate makes on the registry reg:
\* every hop is the edge migrate picks in reg, and a no-migration-path error
\* means reg has no edge from the version reached.
WalkOn(reg) ==
    /\ \A i \in 1..Len(mg.applied) :
          /\ migrate_for(reg, mg.applied[i][1]) # <<>>
          /\ migrate_for(reg, mg.applied[i][1])[1].to = mg.applied[i][2]
    /\ mg.pc = "raised" => migrate_for(reg, mg.current[1]) = <<>>

\* C26: when register_migration or clear_migrations runs concurrently with
\* can_migrate or migrate, the walk behaves as if it ran against one snapshot of
\* the registry, taken before or after the mutation: can_migrate raises no
\* error, migrate raises no error other than no-migration-path, and the hops
\* of a finished migrate are all hops of one of the registry's contents.
C26_WalkOnOneSnapshot ==
    /\ cm.pc # "raised"
    /\ mg.pc \in {"done", "raised"} => \E reg \in Snapshots(mg) : WalkOn(reg)

====
